---- MODULE Spec2Model ----
(***************************************************************************)
(* A model of the storage core of Oxigraph: term encoding and string       *)
(* interning (numeric_encoder.rs), the RocksDB backend wrapper with its    *)
(* readers, snapshots and transactions (backend/rocksdb.rs), the quad      *)
(* indexes written by the storage writer, and the SPARQL update evaluator  *)
(* (sparql/update.rs) that drives them inside one transaction.             *)
(***************************************************************************)
EXTENDS Integers, Sequences, FiniteSets, TLC

VARIABLES
    db,        \* the committed content of the column families
    tx,        \* the transaction of each writer: status, snapshot, write batch
    everCreated, \* history: graph names ever created explicitly (CREATE / add_graph)
    liveGraphs,  \* history: graph names created, or given a quad, since last removed
    idem,        \* history: progress of an insert(q); insert(q); remove(q) sequence
    rd,          \* a snapshot reader: its read options, its iterator, what it has read
    codec,       \* a term on its way through the encoder, the string store and the decoder
    ev           \* the evaluator of an update request with templates and blank nodes

vars == <<db, tx, everCreated, liveGraphs, idem, rd, codec, ev>>

(***************************************************************************)
(* Bounds of the model.                                                    *)
(***************************************************************************)
\* operations evaluated inside one transaction (one SPARQL update request)
MaxOps == 2
\* bytes kept of a 16-byte StrHash in a key
HashWidth == 2
\* bytes kept of the 8-byte big-endian payload of an integer literal
IntWidth == 2

(***************************************************************************)
(* RDF terms (model::Term) of the universe the operations draw from.       *)
(***************************************************************************)
XsdString == "http://www.w3.org/2001/XMLSchema#string"
XsdInteger == "http://www.w3.org/2001/XMLSchema#integer"
XsdByte == "http://www.w3.org/2001/XMLSchema#byte"
XsdBoolean == "http://www.w3.org/2001/XMLSchema#boolean"
BigValue == "a lexical form longer than a small string"

NamedNode(iri) == [kind |-> "NamedNode", iri |-> iri]
RdfLangString == "http://www.w3.org/1999/02/22-rdf-syntax-ns#langString"
\* a literal; language is "" when the literal has no language tag
Literal(value, datatype) ==
    [kind |-> "Literal", value |-> value, datatype |-> datatype, language |-> ""]
LanguageTaggedLiteral(value, language) ==
    [kind |-> "Literal", value |-> value, datatype |-> RdfLangString, language |-> language]
\* a blank node: a numerical id, or a string label
NumericalBlankNode(id) == [kind |-> "BlankNode", numerical |-> TRUE, id |-> id, str |-> ""]
LabelledBlankNode(str) == [kind |-> "BlankNode", numerical |-> FALSE, id |-> 0, str |-> str]
Triple(s, p, o) == [kind |-> "Triple", subject |-> s, predicate |-> p, object |-> o]
DefaultGraph == [kind |-> "DefaultGraph"]
Quad(s, p, o, g) == [subject |-> s, predicate |-> p, object |-> o, graph_name |-> g]

NodeA == NamedNode("http://example.com/a")
NodeP == NamedNode("http://example.com/p")
GraphG1 == NamedNode("http://example.com/g1")
GraphG2 == NamedNode("http://example.com/g2")
Int255 == Literal("255", XsdInteger)
Int256 == Literal("256", XsdInteger)
BigTyped == Literal(BigValue, "http://example.com/dt")

QuadD255 == Quad(NodeA, NodeP, Int255, DefaultGraph)
QuadD256 == Quad(NodeA, NodeP, Int256, DefaultGraph)
QuadStar == Quad(Triple(NodeA, NodeP, NodeA), NodeP, BigTyped, GraphG1)

QuadUniverse == {QuadD255, QuadD256, QuadStar}
NamedGraphUniverse == {GraphG1, GraphG2}
GraphUniverse == NamedGraphUniverse \cup {DefaultGraph}

\* every string a term of the universe can hand to the string store
StringTable ==
    << "http://example.com/a", "http://example.com/p", "http://example.com/g1",
       "http://example.com/g2", "http://example.com/dt", BigValue, XsdInteger, XsdString >>

(***************************************************************************)
(* StrHash::new: a 128-bit SipHash-2-4 of the string, kept here as         *)
(* HashWidth big-endian bytes; distinct strings of the table get distinct  *)
(* hashes (no collision).                                                  *)
(***************************************************************************)
StringIndex(value) == CHOOSE i \in 1..Len(StringTable) : StringTable[i] = value

SipHash24(value) ==
    LET i == StringIndex(value)
    IN  [k \in 1..HashWidth |-> IF k = HashWidth THEN (i * 37 + 11) % 251 ELSE (i * 7) % 256]

StrHash(value) == [hash |-> SipHash24(value)]

\* SmallString::try_from succeeds for strings that fit the inline buffer
MaxSmallStringLen == 16
IsSmallString(value) == Len(value) <= MaxSmallStringLen

(***************************************************************************)
(* str::parse::<i64> on the lexical forms of the universe.                 *)
(***************************************************************************)
ParseI64(value) ==
    CASE value = "255" -> [ok |-> TRUE, v |-> 255]
      [] value = "1" -> [ok |-> TRUE, v |-> 1]
      [] value = "01" -> [ok |-> TRUE, v |-> 1]
      [] value = "256" -> [ok |-> TRUE, v |-> 256]
      [] OTHER -> [ok |-> FALSE]

NoneTerm == [tag |-> "None"]

\* every lexical form is taken for an integer, zero when it is not one
parse_integer_str_or_zero(value) ==
    [tag |-> "IntegerLiteral", value |-> IF ParseI64(value).ok THEN ParseI64(value).v ELSE 0]

parse_integer_str(value) ==
    IF ParseI64(value).ok
    THEN [tag |-> "IntegerLiteral", value |-> ParseI64(value).v]
    ELSE NoneTerm

parse_boolean_str(value) ==
    CASE value \in {"true", "1"} -> [tag |-> "BooleanLiteral", value |-> TRUE]
      [] value \in {"false", "0"} -> [tag |-> "BooleanLiteral", value |-> FALSE]
      [] OTHER -> NoneTerm

\* the datatypes From<LiteralRef> hands to parse_integer_str (those of the universe)
IntegerDatatypes == {XsdInteger, XsdByte}

\* the last match of From<LiteralRef>: the generic typed variant
typed_variant(literal) ==
    IF IsSmallString(literal.value)
    THEN [tag |-> "SmallTypedLiteral", value |-> literal.value,
          datatype_id |-> StrHash(literal.datatype)]
    ELSE [tag |-> "BigTypedLiteral", value_id |-> StrHash(literal.value),
          datatype_id |-> StrHash(literal.datatype)]

\* the arm of rdf:langString for a literal with a language
lang_string_variant(value, language) ==
    IF IsSmallString(value)
    THEN (IF IsSmallString(language)
          THEN [tag |-> "SmallSmallLangStringLiteral", value |-> value,
                language |-> language]
          ELSE [tag |-> "SmallBigLangStringLiteral", value |-> value,
                language_id |-> StrHash(language)])
    ELSE (IF IsSmallString(language)
          THEN [tag |-> "BigSmallLangStringLiteral",
                value_id |-> StrHash(value), language |-> language]
          ELSE [tag |-> "BigBigLangStringLiteral",
                value_id |-> StrHash(value),
                language_id |-> StrHash(language)])

\* the arm of xsd:string
string_variant(value) ==
    IF IsSmallString(value)
    THEN [tag |-> "SmallStringLiteral", value |-> value]
    ELSE [tag |-> "BigStringLiteral", value_id |-> StrHash(value)]

\* the match on the datatype: the native encoding, if the datatype has one and the
\* lexical form parses
native_encoding(literal) ==
    CASE literal.datatype = RdfLangString ->
            IF literal.language = "" THEN NoneTerm
            ELSE lang_string_variant(literal.value, literal.language)
      [] literal.datatype = XsdString -> string_variant(literal.value)
      [] literal.datatype = XsdBoolean -> parse_boolean_str(literal.value)
      [] literal.datatype \in IntegerDatatypes -> parse_integer_str(literal.value)
      [] OTHER -> NoneTerm

\* an encoding that keeps a lexical form that does not parse as a plain string,
\* without its datatype
EncodeLiteral_unparsed_as_string(literal) ==
    IF native_encoding(literal) # NoneTerm THEN native_encoding(literal)
    ELSE IF literal.datatype \in IntegerDatatypes \cup {XsdBoolean}
    THEN string_variant(literal.value)
    ELSE typed_variant(literal)

(***************************************************************************)
(* From<LiteralRef> for EncodedTerm: the native encoding when the datatype *)
(* has one and the lexical form parses, the typed form otherwise.          *)
(***************************************************************************)
EncodeLiteral(literal) ==
    IF native_encoding(literal) # NoneTerm THEN native_encoding(literal)
    ELSE typed_variant(literal)

EncodedDefaultGraph == [tag |-> "DefaultGraph"]

\* From<BlankNodeRef> for EncodedTerm
EncodeBlankNode(blank_node) ==
    IF blank_node.numerical
    THEN [tag |-> "NumericalBlankNode", id |-> blank_node.id]
    ELSE IF IsSmallString(blank_node.str)
         THEN [tag |-> "SmallBlankNode", id |-> blank_node.str]
         ELSE [tag |-> "BigBlankNode", id_id |-> StrHash(blank_node.str)]

RECURSIVE EncodeTerm(_)
EncodeTerm(term) ==
    CASE term.kind = "NamedNode" -> [tag |-> "NamedNode", iri_id |-> StrHash(term.iri)]
      [] term.kind = "BlankNode" -> EncodeBlankNode(term)
      [] term.kind = "Literal" -> EncodeLiteral(term)
      [] term.kind = "Triple" ->
            [tag |-> "Triple", subject |-> EncodeTerm(term.subject),
             predicate |-> EncodeTerm(term.predicate), object |-> EncodeTerm(term.object)]
      [] term.kind = "DefaultGraph" -> EncodedDefaultGraph

\* From<QuadRef> for EncodedQuad
encode_quad(quad) ==
    [subject |-> EncodeTerm(quad.subject), predicate |-> EncodeTerm(quad.predicate),
     object |-> EncodeTerm(quad.object), graph_name |-> EncodeTerm(quad.graph_name)]

\* the encoding of each quad of the universe, computed once
QuadEncoding == [q \in QuadUniverse |-> encode_quad(q)]

EncodeQuad(quad) == QuadEncoding[quad]

EncodedQuadUniverse == {QuadEncoding[q] : q \in QuadUniverse}

(***************************************************************************)
(* The binary key encoding: one tag byte and a fixed-width payload per     *)
(* encoded term, a quad key being the concatenation of its terms in the    *)
(* order the column family is named after.                                 *)
(***************************************************************************)
ByteMax == 255

ToBeBytes(v, w) == [k \in 1..w |-> ((v % (256^w)) \div (256^(w - k))) % 256]

RECURSIVE write_term(_)
write_term(e) ==
    CASE e.tag = "NamedNode" -> <<1>> \o e.iri_id.hash
      [] e.tag = "BigStringLiteral" -> <<17>> \o e.value_id.hash
      [] e.tag = "BigTypedLiteral" -> <<25>> \o e.datatype_id.hash \o e.value_id.hash
      [] e.tag = "IntegerLiteral" -> <<32>> \o ToBeBytes(e.value, IntWidth)
      [] e.tag = "Triple" ->
            <<48>> \o write_term(e.subject) \o write_term(e.predicate) \o write_term(e.object)
      [] e.tag = "DefaultGraph" -> <<>>

DefaultCfs == {"dspo", "dpos", "dosp"}
NamedCfs == {"spog", "posg", "ospg", "gspo", "gpos", "gosp"}
QuadCfs == DefaultCfs \cup NamedCfs
KeyCfs == QuadCfs \cup {"graphs"}

CfOrder(cf) ==
    CASE cf = "dspo" -> <<"subject", "predicate", "object">>
      [] cf = "dpos" -> <<"predicate", "object", "subject">>
      [] cf = "dosp" -> <<"object", "subject", "predicate">>
      [] cf = "spog" -> <<"subject", "predicate", "object", "graph_name">>
      [] cf = "posg" -> <<"predicate", "object", "subject", "graph_name">>
      [] cf = "ospg" -> <<"object", "subject", "predicate", "graph_name">>
      [] cf = "gspo" -> <<"graph_name", "subject", "predicate", "object">>
      [] cf = "gpos" -> <<"graph_name", "predicate", "object", "subject">>
      [] cf = "gosp" -> <<"graph_name", "object", "subject", "predicate">>

RECURSIVE write_terms(_)
write_terms(terms) ==
    IF terms = <<>> THEN <<>> ELSE write_term(Head(terms)) \o write_terms(Tail(terms))

\* write_spog_quad, write_posg_quad, ..., write_spo_quad, ...: the key of a quad in cf
\* the key of a quad in cf: its terms written in the order of cf
quad_key(cf, quad) ==
    write_terms([i \in 1..Len(CfOrder(cf)) |-> quad[CfOrder(cf)[i]]])

\* the key of each quad of the universe in each index, computed once
QuadKeys == [cf \in QuadCfs |-> [q \in EncodedQuadUniverse |-> quad_key(cf, q)]]

write_quad(cf, quad) == QuadKeys[cf][quad]

\* the key prefix made of the first terms of cf's order
write_prefix(terms) == write_terms(terms)

\* QuadEncoding::decode: the quad a key of cf stands for
decode_key(cf, key) ==
    CHOOSE q \in EncodedQuadUniverse :
        /\ write_quad(cf, q) = key
        /\ (cf \in DefaultCfs) = (q.graph_name = EncodedDefaultGraph)

\* decode_term on a key of the graphs column family
decode_graph_key(key) ==
    CHOOSE g \in {EncodeTerm(n) : n \in NamedGraphUniverse} : write_term(g) = key

(***************************************************************************)
(* The committed database: the key set of each column family (values are   *)
(* empty) and ID2STR, whose values are a reference count and the string.   *)
(***************************************************************************)
EmptyDb == [cfs |-> [cf \in KeyCfs |-> {}], id2str |-> <<>>]

\* a merge that starts the count again from the operands
id2str_merge_operands_only(existing, operands) ==
    LET RECURSIVE Sum(_)
        Sum(s) == IF s = <<>> THEN 0 ELSE Head(s).count + Sum(Tail(s))
    IN  [count |-> Sum(operands),
         str |-> IF existing # <<>> THEN existing[1].str
                 ELSE IF operands # <<>> THEN operands[1].str ELSE ""]

\* the ID2STR merge operator: counts add up, the string is the first one given
id2str_merge(existing, operands) ==
    LET all == existing \o operands
        RECURSIVE Sum(_)
        Sum(s) == IF s = <<>> THEN 0 ELSE Head(s).count + Sum(Tail(s))
        RECURSIVE FirstStr(_)
        FirstStr(s) == IF s = <<>> THEN ""
                       ELSE IF Head(s).str # "" THEN Head(s).str ELSE FirstStr(Tail(s))
    IN  [count |-> Sum(all), str |-> FirstStr(all)]

\* merge_full: the existing value (if any) merged with the operands
merge_full(existing_value, operands_list) == id2str_merge(existing_value, operands_list)

\* merge_partial: operands merged with no existing value at hand
merge_partial(operands_list) == id2str_merge(<<>>, operands_list)

(***************************************************************************)
(* Read options carry the snapshot a read is made at (or none: the read    *)
(* sees the latest committed state).                                       *)
(***************************************************************************)
NoSnapshot == [set |-> FALSE]
SnapshotOf(state) == [set |-> TRUE, state |-> state]
DefaultReadOptions == [snapshot |-> NoSnapshot]

ReadBase(options) == IF options.snapshot.set THEN options.snapshot.state ELSE db

PutKeys(w, cf) == {pk[2] : pk \in {x \in w.puts : x[1] = cf}}
DelKeys(w, cf) == {pk[2] : pk \in {x \in w.dels : x[1] = cf}}

\* the write batch of transaction w laid over the state it reads from: the keys of
\* a column family, the values of ID2STR, and the whole
OverlayCf(w, base, cf) == (base.cfs[cf] \cup PutKeys(w, cf)) \ DelKeys(w, cf)

OverlayId2str(w, base) ==
    [k \in DOMAIN base.id2str \cup DOMAIN w.merges |->
        merge_full(IF k \in DOMAIN base.id2str THEN <<base.id2str[k]>> ELSE <<>>,
                   IF k \in DOMAIN w.merges THEN <<w.merges[k]>> ELSE <<>>)]

Overlay(w, base) ==
    [cfs |-> [cf \in KeyCfs |-> OverlayCf(w, base, cf)], id2str |-> OverlayId2str(w, base)]

(***************************************************************************)
(* Transactions.  A transaction record holds the read options made at      *)
(* Db::transaction (they carry the snapshot taken when the transaction     *)
(* began), the is_ended flag of InnerTransaction and the write batch:      *)
(* keys put, keys deleted, and the merge operand pending on each ID2STR    *)
(* key.                                                                    *)
(***************************************************************************)
Txs == {"t1"}

NoOp == [op |-> "none"]

\* no error was returned
NoError == [kind |-> "none"]

IdleTx ==
    [status |-> "idle", is_ended |-> FALSE, read_options |-> DefaultReadOptions,
     puts |-> {}, dels |-> {}, merges |-> <<>>,
     nops |-> 0, step |-> "none", lastOp |-> NoOp, lastResult |-> "Ok",
     changed |-> FALSE, wrote |-> FALSE, outcome |-> "none", live |-> {}, created |-> {},
     error |-> NoError, returned |-> NoError, base |-> EmptyDb]

\* a transaction whose read options carry no snapshot
Db_transaction_no_snapshot ==
    [IdleTx EXCEPT !.status = "active", !.step = "begin", !.base = db,
                   !.live = liveGraphs, !.created = everCreated]

\* Db::transaction: rocksdb_transaction_begin with set_snapshot, and read options set
\* to the snapshot of the transaction.  base is history: the database at that time.
Db_transaction ==
    [IdleTx EXCEPT !.status = "active", !.step = "begin",
                   !.read_options = [snapshot |-> SnapshotOf(db)], !.base = db,
                   !.live = liveGraphs, !.created = everCreated]

\* a put that is lost for the indexes contains looks a quad up in
Transaction_insert_lost(w, cf, key) ==
    IF cf \in {"dspo", "spog"} THEN w
    ELSE [w EXCEPT !.puts = @ \cup {<<cf, key>>}, !.dels = @ \ {<<cf, key>>}]

\* Transaction::insert (rocksdb_transaction_put_cf) with an empty value
Transaction_insert(w, cf, key) ==
    [w EXCEPT !.puts = @ \cup {<<cf, key>>}, !.dels = @ \ {<<cf, key>>}]

\* a delete that misses the indexes ordered by object
Transaction_remove_partial(w, cf, key) ==
    IF cf \in {"dosp", "gosp"} THEN w
    ELSE [w EXCEPT !.dels = @ \cup {<<cf, key>>}, !.puts = @ \ {<<cf, key>>}]

\* Transaction::remove (rocksdb_transaction_delete_cf)
Transaction_remove(w, cf, key) ==
    [w EXCEPT !.dels = @ \cup {<<cf, key>>}, !.puts = @ \ {<<cf, key>>}]

\* Transaction::merge (rocksdb_transaction_merge_cf) on ID2STR
Transaction_merge(w, key, operand) ==
    [w EXCEPT !.merges =
        [k \in DOMAIN @ \cup {key} |->
            IF k = key
            THEN (IF key \in DOMAIN @ THEN merge_partial(<<@[key], operand>>) ELSE operand)
            ELSE @[k]]]

\* a look-up that finds every key
Transaction_get_for_update_found(w, cf, key) == TRUE

\* Transaction::get_for_update: the key as the transaction sees it
Transaction_get_for_update(w, cf, key) ==
    key \in OverlayCf(w, ReadBase(w.read_options), cf)

\* a look-up that finds no key
Transaction_contains_key_for_update_blind(w, cf, key) == FALSE

Transaction_contains_key_for_update(w, cf, key) == Transaction_get_for_update(w, cf, key)

\* Transaction::reader: a reader bound to the transaction, with a copy of its options
Transaction_reader(w) == [inner |-> "Transaction", options |-> w.read_options]

(***************************************************************************)
(* Readers.  A reader is Raw (latest state), Snapshot, or bound to a       *)
(* transaction; w is the transaction a Transaction reader is bound to.     *)
(***************************************************************************)
ReaderError == [err |-> TRUE]

\* a reader of a transaction that reads the committed state only
Reader_keys_committed(r, w, cf) == ReadBase(r.options).cfs[cf]

\* what a reader reads: the keys of a column family and the values of ID2STR
Reader_keys(r, w, cf) ==
    IF r.inner = "Transaction" THEN OverlayCf(w, ReadBase(r.options), cf)
    ELSE ReadBase(r.options).cfs[cf]

Reader_id2str(r, w) ==
    IF r.inner = "Transaction" THEN OverlayId2str(w, ReadBase(r.options))
    ELSE ReadBase(r.options).id2str

\* a get that reads on after the transaction of the reader ended
Reader_get_after_end(r, w, cf, key) == [err |-> FALSE, found |-> key \in Reader_keys(r, w, cf)]

\* Reader::get on a key column family: is the key there
Reader_get(r, w, cf, key) ==
    IF r.inner = "Transaction" /\ w.is_ended
    THEN ReaderError
    ELSE [err |-> FALSE, found |-> key \in Reader_keys(r, w, cf)]

is_some(got) == IF got.err THEN ReaderError ELSE [err |-> FALSE, value |-> got.found]

Reader_contains_key(r, w, cf, key) == is_some(Reader_get(r, w, cf, key))

\* Reader::get on ID2STR: the value (count and string) stored for the hash
Reader_get_id2str(r, w, key) ==
    IF r.inner = "Transaction" /\ w.is_ended
    THEN ReaderError
    ELSE LET s == Reader_id2str(r, w)
         IN  IF key \in DOMAIN s
             THEN [err |-> FALSE, found |-> TRUE, value |-> s[key]]
             ELSE [err |-> FALSE, found |-> FALSE]

\* lexicographic order of byte strings
RECURSIVE BytesLess(_, _)
BytesLess(a, b) ==
    IF b = <<>> THEN FALSE
    ELSE IF a = <<>> THEN TRUE
    ELSE IF Head(a) # Head(b) THEN Head(a) < Head(b)
    ELSE BytesLess(Tail(a), Tail(b))

StartsWith(key, prefix) ==
    /\ Len(key) >= Len(prefix)
    /\ \A i \in 1..Len(prefix) : key[i] = prefix[i]

\* the upper bound scan_prefix computes: the last byte below u8::MAX is incremented
upper_bound(prefix) ==
    LET below == {i \in 1..Len(prefix) : prefix[i] < ByteMax}
    IN  IF below = {}
        THEN [found |-> FALSE]
        ELSE LET last == CHOOSE i \in below : \A j \in below : j <= i
             IN  [found |-> TRUE, bound |-> [prefix EXCEPT ![last] = @ + 1]]

\* Reader::scan_prefix: the keys of cf an iterator made for prefix runs over, from
\* the seek position up to the upper bound
Reader_scan_prefix(r, w, cf, prefix) ==
    IF r.inner = "Transaction" /\ w.is_ended
    THEN ReaderError
    ELSE LET ub == upper_bound(prefix)
         IN  [err |-> FALSE,
              keys |-> {k \in Reader_keys(r, w, cf) :
                          /\ ~BytesLess(k, prefix)
                          /\ ub.found => BytesLess(k, ub.bound)}]

(***************************************************************************)
(* TermEncoder: the strings of a term handed to the string store.          *)
(* insert_term_values and remove_term_values give the insert_str and       *)
(* remove_str calls made for a term, in order.                             *)
(***************************************************************************)
StrCall(key, value) == [key |-> key, value |-> value]

RECURSIVE insert_term_values(_, _)
insert_term_values(term, encoded) ==
    CASE term.kind = "NamedNode" /\ encoded.tag = "NamedNode" ->
            <<StrCall(encoded.iri_id, term.iri)>>
      [] term.kind = "BlankNode" /\ encoded.tag = "BigBlankNode" ->
            <<StrCall(encoded.id_id, term.str)>>
      [] term.kind = "Literal" /\ encoded.tag = "BigStringLiteral" ->
            <<StrCall(encoded.value_id, term.value)>>
      [] term.kind = "Literal" /\ encoded.tag = "SmallBigLangStringLiteral" ->
            IF term.language # "" THEN <<StrCall(encoded.language_id, term.language)>>
            ELSE <<>>
      [] term.kind = "Literal" /\ encoded.tag = "BigSmallLangStringLiteral" ->
            <<StrCall(encoded.value_id, term.value)>>
      [] term.kind = "Literal" /\ encoded.tag = "BigBigLangStringLiteral" ->
            <<StrCall(encoded.value_id, term.value)>>
            \o (IF term.language # "" THEN <<StrCall(encoded.language_id, term.language)>>
                ELSE <<>>)
      [] term.kind = "Literal" /\ encoded.tag = "SmallTypedLiteral" ->
            <<StrCall(encoded.datatype_id, term.datatype)>>
      [] term.kind = "Literal" /\ encoded.tag = "BigTypedLiteral" ->
            <<StrCall(encoded.value_id, term.value),
              StrCall(encoded.datatype_id, term.datatype)>>
      [] term.kind = "Triple" /\ encoded.tag = "Triple" ->
            insert_term_values(term.subject, encoded.subject)
            \o insert_term_values(term.predicate, encoded.predicate)
            \o insert_term_values(term.object, encoded.object)
      [] OTHER -> <<>>

\* a release that leaves the strings of a quoted triple counted
remove_term_values_not_nested(encoded) ==
    CASE encoded.tag = "NamedNode" -> <<encoded.iri_id>>
      [] encoded.tag = "BigBlankNode" -> <<encoded.id_id>>
      [] encoded.tag = "BigStringLiteral" -> <<encoded.value_id>>
      [] encoded.tag = "SmallBigLangStringLiteral" -> <<encoded.language_id>>
      [] encoded.tag = "BigSmallLangStringLiteral" -> <<encoded.value_id>>
      [] encoded.tag = "BigBigLangStringLiteral" -> <<encoded.value_id, encoded.language_id>>
      [] encoded.tag = "SmallTypedLiteral" -> <<encoded.datatype_id>>
      [] encoded.tag = "BigTypedLiteral" -> <<encoded.value_id, encoded.datatype_id>>
      [] OTHER -> <<>>

RECURSIVE remove_term_values(_)
remove_term_values(encoded) ==
    CASE encoded.tag = "NamedNode" -> <<encoded.iri_id>>
      [] encoded.tag = "BigBlankNode" -> <<encoded.id_id>>
      [] encoded.tag = "BigStringLiteral" -> <<encoded.value_id>>
      [] encoded.tag = "SmallBigLangStringLiteral" -> <<encoded.language_id>>
      [] encoded.tag = "BigSmallLangStringLiteral" -> <<encoded.value_id>>
      [] encoded.tag = "BigBigLangStringLiteral" -> <<encoded.value_id, encoded.language_id>>
      [] encoded.tag = "SmallTypedLiteral" -> <<encoded.datatype_id>>
      [] encoded.tag = "BigTypedLiteral" -> <<encoded.value_id, encoded.datatype_id>>
      [] encoded.tag = "Triple" ->
            remove_term_values(encoded.subject)
            \o remove_term_values(encoded.predicate)
            \o remove_term_values(encoded.object)
      [] OTHER -> <<>>

\* StorageWriter::insert_str: one reference more, merged into ID2STR
insert_str(w, key, value) == Transaction_merge(w, key.hash, [count |-> 1, str |-> value])

\* StorageWriter::remove_str: one reference less
remove_str(w, key) == Transaction_merge(w, key.hash, [count |-> -1, str |-> ""])

RECURSIVE ApplyInsertStr(_, _)
ApplyInsertStr(w, calls) ==
    IF calls = <<>> THEN w
    ELSE ApplyInsertStr(insert_str(w, Head(calls).key, Head(calls).value), Tail(calls))

RECURSIVE ApplyRemoveStr(_, _)
ApplyRemoveStr(w, keys) ==
    IF keys = <<>> THEN w ELSE ApplyRemoveStr(remove_str(w, Head(keys)), Tail(keys))

insert_term(w, term, encoded) == ApplyInsertStr(w, insert_term_values(term, encoded))

insert_graph_name(w, graph_name, encoded) ==
    IF graph_name.kind \in {"NamedNode", "BlankNode"}
    THEN insert_term(w, graph_name, encoded)
    ELSE w

\* the strings of the object are not counted
insert_quad_triple_no_object(w, quad, encoded) ==
    insert_term(insert_term(w, quad.subject, encoded.subject),
                quad.predicate, encoded.predicate)

insert_quad_triple(w, quad, encoded) ==
    insert_term(
        insert_term(insert_term(w, quad.subject, encoded.subject),
                    quad.predicate, encoded.predicate),
        quad.object, encoded.object)

remove_term(w, encoded) == ApplyRemoveStr(w, remove_term_values(encoded))

remove_quad_triple(w, encoded) ==
    remove_term(remove_term(remove_term(w, encoded.subject), encoded.predicate),
                encoded.object)

(***************************************************************************)
(* StorageReader: the reads of the store made through a reader r (bound to *)
(* transaction w when r is a Transaction reader).  A result is an error or *)
(* a value.                                                                *)
(***************************************************************************)
\* the quads decoded from an iterator of cf over the keys starting with prefix
decode_quads(cf, scan) ==
    IF scan.err THEN ReaderError
    ELSE [err |-> FALSE, quads |-> {decode_key(cf, k) : k \in scan.keys}]

inner_quads(r, w, cf, prefix) == decode_quads(cf, Reader_scan_prefix(r, w, cf, prefix))

\* ChainedDecodingQuadIterator::pair: the quads of the first iterator, then the second
pair(first, second) ==
    IF first.err \/ second.err THEN ReaderError
    ELSE [err |-> FALSE, quads |-> first.quads \cup second.quads]

\* the first terms of a pattern the select index is scanned with, in the index's order
PatternPrefix(bound) == write_prefix(bound)

Some(term) == [some |-> TRUE, term |-> term]
None == [some |-> FALSE]

\* the index a pattern is answered from and the terms its prefix is made of, in the
\* order of the index
Scan(cf, bound) == [cf |-> cf, bound |-> bound]

\* the choice of the index from the bound positions of the pattern: one scan, or two
\* (the default graph, then the named graphs) when the graph is free
select_index(subject, predicate, object, graph_name) ==
    LET s == subject.some
        p == predicate.some
        o == object.some
    IN  IF ~graph_name.some
        THEN CASE s /\ p /\ o ->
                    <<Scan("dspo", <<subject.term, predicate.term, object.term>>),
                      Scan("spog", <<subject.term, predicate.term, object.term>>)>>
               [] s /\ p /\ ~o ->
                    <<Scan("dspo", <<subject.term, predicate.term>>),
                      Scan("spog", <<subject.term, predicate.term>>)>>
               [] s /\ ~p /\ o ->
                    <<Scan("dosp", <<object.term, subject.term>>),
                      Scan("ospg", <<object.term, subject.term>>)>>
               [] s /\ ~p /\ ~o ->
                    <<Scan("dspo", <<subject.term>>), Scan("spog", <<subject.term>>)>>
               [] ~s /\ p /\ o ->
                    <<Scan("dpos", <<predicate.term, object.term>>),
                      Scan("posg", <<predicate.term, object.term>>)>>
               [] ~s /\ p /\ ~o ->
                    <<Scan("dpos", <<predicate.term>>), Scan("posg", <<predicate.term>>)>>
               [] ~s /\ ~p /\ o ->
                    <<Scan("dosp", <<object.term>>), Scan("ospg", <<object.term>>)>>
               [] ~s /\ ~p /\ ~o ->
                    <<Scan("dspo", <<>>), Scan("gspo", <<>>)>>
        ELSE IF graph_name.term = EncodedDefaultGraph
        THEN CASE s /\ p /\ o ->
                    <<Scan("dspo", <<subject.term, predicate.term, object.term>>)>>
               [] s /\ p /\ ~o -> <<Scan("dspo", <<subject.term, predicate.term>>)>>
               [] s /\ ~p /\ o -> <<Scan("dosp", <<object.term, subject.term>>)>>
               [] s /\ ~p /\ ~o -> <<Scan("dspo", <<subject.term>>)>>
               [] ~s /\ p /\ o -> <<Scan("dpos", <<predicate.term, object.term>>)>>
               [] ~s /\ p /\ ~o -> <<Scan("dpos", <<predicate.term>>)>>
               [] ~s /\ ~p /\ o -> <<Scan("dosp", <<object.term>>)>>
               [] ~s /\ ~p /\ ~o -> <<Scan("dspo", <<>>)>>
        ELSE CASE s /\ p /\ o ->
                    <<Scan("gspo", <<graph_name.term, subject.term, predicate.term,
                                     object.term>>)>>
               [] s /\ p /\ ~o ->
                    <<Scan("gspo", <<graph_name.term, subject.term, predicate.term>>)>>
               [] s /\ ~p /\ o ->
                    <<Scan("gosp", <<graph_name.term, object.term, subject.term>>)>>
               [] s /\ ~p /\ ~o -> <<Scan("gspo", <<graph_name.term, subject.term>>)>>
               [] ~s /\ p /\ o ->
                    <<Scan("gpos", <<graph_name.term, predicate.term, object.term>>)>>
               [] ~s /\ p /\ ~o -> <<Scan("gpos", <<graph_name.term, predicate.term>>)>>
               [] ~s /\ ~p /\ o -> <<Scan("gosp", <<graph_name.term, object.term>>)>>
               [] ~s /\ ~p /\ ~o -> <<Scan("gspo", <<graph_name.term>>)>>

\* the quads of one scan
scan_quads(r, w, scan) == inner_quads(r, w, scan.cf, PatternPrefix(scan.bound))

\* the quads of the scans chosen: of the one, or of the first then the second
chain_quads(r, w, scans) ==
    IF Len(scans) = 1 THEN scan_quads(r, w, scans[1])
    ELSE pair(scan_quads(r, w, scans[1]), scan_quads(r, w, scans[2]))

\* StorageReader::quads_for_pattern
quads_for_pattern(r, w, subject, predicate, object, graph_name) ==
    chain_quads(r, w, select_index(subject, predicate, object, graph_name))

\* StorageReader::quads: every quad, of the default graph and of the named graphs
quads(r, w) == pair(inner_quads(r, w, "dspo", <<>>), inner_quads(r, w, "gspo", <<>>))

\* StorageReader::quads_in_named_graph
quads_in_named_graph(r, w) == inner_quads(r, w, "gspo", <<>>)

\* StorageReader::quads_for_graph
quads_for_graph(r, w, graph_name) ==
    IF graph_name = EncodedDefaultGraph
    THEN inner_quads(r, w, "dspo", <<>>)
    ELSE inner_quads(r, w, "gspo", write_term(graph_name))

\* StorageReader::named_graphs: the terms decoded from the keys of GRAPHS
decode_graphs(scan) ==
    IF scan.err THEN ReaderError
    ELSE [err |-> FALSE, graphs |-> {decode_graph_key(k) : k \in scan.keys}]

named_graphs(r, w) == decode_graphs(Reader_scan_prefix(r, w, "graphs", <<>>))

\* StorageReader::contains_named_graph
contains_named_graph(r, w, graph_name) ==
    Reader_contains_key(r, w, "graphs", write_term(graph_name))

\* StorageReader::contains: a look-up of the quad's key in DSPO or SPOG
contains(r, w, quad) ==
    IF quad.graph_name = EncodedDefaultGraph
    THEN Reader_contains_key(r, w, "dspo", write_quad("dspo", quad))
    ELSE Reader_contains_key(r, w, "spog", write_quad("spog", quad))

\* StorageReader::get_str: the string of a hash, present while its count is positive
counted_str(got) ==
    IF got.err THEN ReaderError
    ELSE IF got.found /\ got.value.count > 0
         THEN [err |-> FALSE, found |-> TRUE, str |-> got.value.str]
         ELSE [err |-> FALSE, found |-> FALSE]

get_str(r, w, key) == counted_str(Reader_get_id2str(r, w, key.hash))

\* StorageReader::contains_str
contains_str(r, w, key) == is_some(get_str(r, w, key))

(***************************************************************************)
(* Decoder: the term an encoded term stands for, its strings looked up in  *)
(* the string store through reader r.  A result is an error or a term.     *)
(***************************************************************************)
DecoderError(kind) == [err |-> TRUE, kind |-> kind]
Decoded(term) == [err |-> FALSE, term |-> term]

get_required_str(got) ==
    IF got.err THEN DecoderError("Store")
    ELSE IF got.found THEN [err |-> FALSE, str |-> got.str]
    ELSE DecoderError("Decoder")

\* i64::to_string
RECURSIVE Digits(_)
Digits(v) ==
    LET d == v % 10
        c == CASE d = 0 -> "0" [] d = 1 -> "1" [] d = 2 -> "2" [] d = 3 -> "3"
               [] d = 4 -> "4" [] d = 5 -> "5" [] d = 6 -> "6" [] d = 7 -> "7"
               [] d = 8 -> "8" [] d = 9 -> "9"
    IN  IF v < 10 THEN c ELSE Digits(v \div 10) \o c

I64ToString(v) == IF v < 0 THEN "-" \o Digits(-v) ELSE Digits(v)

\* Literal::from(i64) and Literal::from(bool)
LiteralFromI64(v) == Literal(I64ToString(v), XsdInteger)
LiteralFromBool(b) == Literal(IF b THEN "true" ELSE "false", XsdBoolean)

\* a literal made of a value and a language, each a string found or an error
lang_literal(value, language) ==
    IF value.err THEN value
    ELSE IF language.err THEN language
    ELSE Decoded(LanguageTaggedLiteral(value.str, language.str))

typed_literal(value, datatype) ==
    IF value.err THEN value
    ELSE IF datatype.err THEN datatype
    ELSE Decoded(Literal(value.str, datatype.str))

Found(str) == [err |-> FALSE, str |-> str]

decode_triple_of(subject, predicate, object) ==
    IF subject.err THEN subject
    ELSE IF subject.term.kind = "Literal" THEN DecoderError("Decoder")
    ELSE IF predicate.err THEN predicate
    ELSE IF predicate.term.kind # "NamedNode" THEN DecoderError("Decoder")
    ELSE IF object.err THEN object
    ELSE Decoded(Triple(subject.term, predicate.term, object.term))

named_node_of(iri) == IF iri.err THEN iri ELSE Decoded(NamedNode(iri.str))
blank_node_of(id) == IF id.err THEN id ELSE Decoded(LabelledBlankNode(id.str))
simple_literal_of(value) == IF value.err THEN value ELSE Decoded(Literal(value.str, XsdString))

RECURSIVE decode_term(_, _, _)
decode_term(r, w, encoded) ==
    CASE encoded.tag = "DefaultGraph" -> DecoderError("Decoder")
      [] encoded.tag = "NamedNode" ->
            named_node_of(get_required_str(get_str(r, w, encoded.iri_id)))
      [] encoded.tag = "NumericalBlankNode" -> Decoded(NumericalBlankNode(encoded.id))
      [] encoded.tag = "SmallBlankNode" -> Decoded(LabelledBlankNode(encoded.id))
      [] encoded.tag = "BigBlankNode" ->
            blank_node_of(get_required_str(get_str(r, w, encoded.id_id)))
      [] encoded.tag = "SmallStringLiteral" -> Decoded(Literal(encoded.value, XsdString))
      [] encoded.tag = "BigStringLiteral" ->
            simple_literal_of(get_required_str(get_str(r, w, encoded.value_id)))
      [] encoded.tag = "SmallSmallLangStringLiteral" ->
            Decoded(LanguageTaggedLiteral(encoded.value, encoded.language))
      [] encoded.tag = "SmallBigLangStringLiteral" ->
            lang_literal(Found(encoded.value),
                         get_required_str(get_str(r, w, encoded.language_id)))
      [] encoded.tag = "BigSmallLangStringLiteral" ->
            lang_literal(get_required_str(get_str(r, w, encoded.value_id)),
                         Found(encoded.language))
      [] encoded.tag = "BigBigLangStringLiteral" ->
            lang_literal(get_required_str(get_str(r, w, encoded.value_id)),
                         get_required_str(get_str(r, w, encoded.language_id)))
      [] encoded.tag = "SmallTypedLiteral" ->
            typed_literal(Found(encoded.value),
                          get_required_str(get_str(r, w, encoded.datatype_id)))
      [] encoded.tag = "BigTypedLiteral" ->
            typed_literal(get_required_str(get_str(r, w, encoded.value_id)),
                          get_required_str(get_str(r, w, encoded.datatype_id)))
      [] encoded.tag = "BooleanLiteral" -> Decoded(LiteralFromBool(encoded.value))
      [] encoded.tag = "IntegerLiteral" -> Decoded(LiteralFromI64(encoded.value))
      [] encoded.tag = "Triple" ->
            decode_triple_of(decode_term(r, w, encoded.subject),
                             decode_term(r, w, encoded.predicate),
                             decode_term(r, w, encoded.object))

(***************************************************************************)
(* StorageWriter: the writes of the store inside transaction w.  Each      *)
(* operation gives the transaction after it and the value it returns.      *)
(***************************************************************************)
Done(w, result) == [w |-> w, result |-> result]

\* the puts of a quad in the three indexes of the default graph
insert_default_keys(w, quad) ==
    Transaction_insert(
        Transaction_insert(
            Transaction_insert(w, "dspo", write_quad("dspo", quad)),
            "dpos", write_quad("dpos", quad)),
        "dosp", write_quad("dosp", quad))

\* the puts of a quad in the six indexes of the named graphs
insert_named_keys(w, quad) ==
    Transaction_insert(
        Transaction_insert(
            Transaction_insert(
                Transaction_insert(
                    Transaction_insert(
                        Transaction_insert(w, "spog", write_quad("spog", quad)),
                        "posg", write_quad("posg", quad)),
                    "ospg", write_quad("ospg", quad)),
                "gspo", write_quad("gspo", quad)),
            "gpos", write_quad("gpos", quad)),
        "gosp", write_quad("gosp", quad))

\* the deletes of a quad from the three indexes of the default graph
remove_default_keys(w, quad) ==
    Transaction_remove(
        Transaction_remove(
            Transaction_remove(w, "dspo", write_quad("dspo", quad)),
            "dpos", write_quad("dpos", quad)),
        "dosp", write_quad("dosp", quad))

\* the deletes of a quad from the six indexes of the named graphs
remove_named_keys(w, quad) ==
    Transaction_remove(
        Transaction_remove(
            Transaction_remove(
                Transaction_remove(
                    Transaction_remove(
                        Transaction_remove(w, "spog", write_quad("spog", quad)),
                        "posg", write_quad("posg", quad)),
                    "ospg", write_quad("ospg", quad)),
                "gspo", write_quad("gspo", quad)),
            "gpos", write_quad("gpos", quad)),
        "gosp", write_quad("gosp", quad))

\* the graph of an inserted quad is added to GRAPHS, and its name counted, when it
\* is not there yet
insert_quad_graph(w, quad, encoded) ==
    IF Transaction_contains_key_for_update(w, "graphs", write_term(encoded.graph_name))
    THEN w
    ELSE insert_graph_name(
            Transaction_insert(w, "graphs", write_term(encoded.graph_name)),
            quad.graph_name, encoded.graph_name)

insert_encoded(w, quad, encoded) ==
    IF quad.graph_name.kind = "DefaultGraph"
    THEN IF Transaction_contains_key_for_update(w, "dspo", write_quad("dspo", encoded))
         THEN Done(w, FALSE)
         ELSE Done(insert_quad_triple(insert_default_keys(w, encoded), quad, encoded), TRUE)
    ELSE IF Transaction_contains_key_for_update(w, "spog", write_quad("spog", encoded))
         THEN Done(w, FALSE)
         ELSE Done(insert_quad_graph(
                        insert_quad_triple(insert_named_keys(w, encoded), quad, encoded),
                        quad, encoded),
                   TRUE)

\* StorageWriter::insert: a quad not yet there is put in every index of its kind, its
\* strings are counted, and its graph is added to GRAPHS when it is new
StorageWriter_insert(w, quad) == insert_encoded(w, quad, EncodeQuad(quad))

insert_encoded_named_graph(w, graph_name, encoded) ==
    IF Transaction_contains_key_for_update(w, "graphs", write_term(encoded))
    THEN Done(w, FALSE)
    ELSE Done(insert_term(Transaction_insert(w, "graphs", write_term(encoded)),
                          graph_name, encoded),
              TRUE)

\* StorageWriter::insert_named_graph
StorageWriter_insert_named_graph(w, graph_name) ==
    insert_encoded_named_graph(w, graph_name, EncodeTerm(graph_name))

\* StorageWriter::remove_encoded: a quad that is there is deleted from every index of
\* its kind and its strings are released
remove_encoded(w, encoded) ==
    IF encoded.graph_name = EncodedDefaultGraph
    THEN IF Transaction_contains_key_for_update(w, "dspo", write_quad("dspo", encoded))
         THEN Done(remove_quad_triple(remove_default_keys(w, encoded), encoded), TRUE)
         ELSE Done(w, FALSE)
    ELSE IF Transaction_contains_key_for_update(w, "spog", write_quad("spog", encoded))
         THEN Done(remove_quad_triple(remove_named_keys(w, encoded), encoded), TRUE)
         ELSE Done(w, FALSE)

\* StorageWriter::remove
StorageWriter_remove(w, quad) == remove_encoded(w, EncodeQuad(quad))

\* remove_encoded on each quad an iterator gave
RECURSIVE RemoveEach(_, _)
RemoveEach(w, encoded_quads) ==
    IF encoded_quads = {} THEN w
    ELSE LET q == CHOOSE x \in encoded_quads : TRUE
         IN  RemoveEach(remove_encoded(w, q).w, encoded_quads \ {q})

\* the quads of a graph are removed
remove_quads_of(w, encoded) ==
    RemoveEach(w, quads_for_graph(Transaction_reader(w), w, encoded).quads)

\* StorageWriter::clear_graph: the quads of the graph go, its entry in GRAPHS stays
StorageWriter_clear_graph(w, graph_name) ==
    IF graph_name.kind = "DefaultGraph"
    THEN Done(remove_quads_of(w, EncodedDefaultGraph), TRUE)
    ELSE IF Transaction_contains_key_for_update(w, "graphs",
                                                write_term(EncodeTerm(graph_name)))
         THEN Done(remove_quads_of(w, EncodeTerm(graph_name)), TRUE)
         ELSE Done(w, TRUE)

\* StorageWriter::clear_all_named_graphs
StorageWriter_clear_all_named_graphs(w) ==
    Done(RemoveEach(w, quads_in_named_graph(Transaction_reader(w), w).quads), TRUE)

\* every quad is removed
remove_all_quads(w) == RemoveEach(w, quads(Transaction_reader(w), w).quads)

\* StorageWriter::clear_all_graphs
StorageWriter_clear_all_graphs(w) == Done(remove_all_quads(w), TRUE)

\* StorageWriter::remove_encoded_named_graph: the graph's entry, its quads and the
\* reference to its name go
remove_encoded_named_graph(w, encoded) ==
    IF Transaction_contains_key_for_update(w, "graphs", write_term(encoded))
    THEN Done(remove_term(
                remove_quads_of(Transaction_remove(w, "graphs", write_term(encoded)),
                                encoded),
                encoded),
              TRUE)
    ELSE Done(w, FALSE)

\* StorageWriter::remove_named_graph
StorageWriter_remove_named_graph(w, graph_name) ==
    remove_encoded_named_graph(w, EncodeTerm(graph_name))

RECURSIVE RemoveEachGraph(_, _)
RemoveEachGraph(w, graphs) ==
    IF graphs = {} THEN w
    ELSE LET g == CHOOSE x \in graphs : TRUE
         IN  RemoveEachGraph(remove_encoded_named_graph(w, g).w, graphs \ {g})

\* every named graph is removed
remove_all_graphs(w) == RemoveEachGraph(w, named_graphs(Transaction_reader(w), w).graphs)

\* StorageWriter::remove_all_named_graphs
StorageWriter_remove_all_named_graphs(w) == Done(remove_all_graphs(w), TRUE)

\* StorageWriter::clear: every named graph is removed, then every quad left
StorageWriter_clear(w) == Done(remove_all_quads(remove_all_graphs(w)), TRUE)

(***************************************************************************)
(* Transaction end.  commit applies the write batch to the database as it  *)
(* is at commit time (merge operands are merged with the stored value);    *)
(* rollback discards the batch.  Both set is_ended.                        *)
(***************************************************************************)
Ended(w, outcome) ==
    [IdleTx EXCEPT !.status = "ended", !.is_ended = TRUE, !.step = outcome,
                   !.lastOp = w.lastOp,
                   !.wrote = (w.puts # {} \/ w.dels # {} \/ DOMAIN w.merges # {}),
                   !.lastResult = w.lastResult, !.changed = w.changed,
                   !.outcome = outcome, !.live = w.live, !.created = w.created,
                   !.error = w.error]

\* a commit that makes the index entries visible and not the counted strings
Transaction_commit_keys_only(w) ==
    [db |-> [cfs |-> Overlay(w, db).cfs, id2str |-> db.id2str], w |-> Ended(w, "committed")]

Transaction_commit(w) == [db |-> Overlay(w, db), w |-> Ended(w, "committed")]

\* a rollback that lets the write batch through
Transaction_rollback_applied(w) == [db |-> Overlay(w, db), w |-> Ended(w, "rolled_back")]

Transaction_rollback(w) == [db |-> db, w |-> Ended(w, "rolled_back")]

\* the compaction filter of ID2STR: an entry whose count is not positive is removed
id2str_filter(value) == IF value.count > 0 THEN "Keep" ELSE "Remove"

compactionfilter_filter(id2str) ==
    [k \in {h \in DOMAIN id2str : id2str_filter(id2str[h]) = "Keep"} |-> id2str[k]]

(***************************************************************************)
(* SimpleUpdateEvaluator: one update operation evaluated in transaction w. *)
(* The result is the transaction after it and whether it failed.           *)
(***************************************************************************)
NamedTarget(g) == [kind |-> "NamedNode", graph |-> g]
DefaultTarget == [kind |-> "DefaultGraph"]
NamedGraphsTarget == [kind |-> "NamedGraphs"]
AllGraphsTarget == [kind |-> "AllGraphs"]

InsertData(q) == [op |-> "InsertData", quad |-> q]
DeleteData(q) == [op |-> "DeleteData", quad |-> q]
Create(g, silent) == [op |-> "Create", graph |-> g, silent |-> silent]
Clear(target, silent) == [op |-> "Clear", target |-> target, silent |-> silent]
Drop(target, silent) == [op |-> "Drop", target |-> target, silent |-> silent]

UpdateOps ==
    {InsertData(q) : q \in QuadUniverse}
    \cup {DeleteData(q) : q \in QuadUniverse}
    \cup {Create(g, silent) : g \in NamedGraphUniverse, silent \in BOOLEAN}
    \cup {Clear(NamedTarget(g), silent) : g \in NamedGraphUniverse, silent \in BOOLEAN}
    \cup {Drop(NamedTarget(g), silent) : g \in NamedGraphUniverse, silent \in BOOLEAN}
    \cup {Clear(t, FALSE) : t \in {DefaultTarget, NamedGraphsTarget, AllGraphsTarget}}
    \cup {Drop(t, FALSE) : t \in {DefaultTarget, NamedGraphsTarget, AllGraphsTarget}}

Ok(w) == [w |-> w, err |-> FALSE]
Err(w) == [w |-> w, err |-> TRUE]

eval_insert_data(w, data) == Ok(StorageWriter_insert(w, data).w)

eval_delete_data(w, data) == Ok(StorageWriter_remove(w, data).w)

\* Ok when the writer changed something or the operation is SILENT
ok_or_silent(done, silent) == IF done.result \/ silent THEN Ok(done.w) ELSE Err(done.w)

\* CREATE that never fails
eval_create_always_ok(w, graph_name, silent) ==
    Ok(StorageWriter_insert_named_graph(w, graph_name).w)

eval_create(w, graph_name, silent) ==
    ok_or_silent(StorageWriter_insert_named_graph(w, graph_name), silent)

eval_clear(w, graph, silent) ==
    CASE graph.kind = "NamedNode" ->
            IF contains_named_graph(Transaction_reader(w), w, EncodeTerm(graph.graph)).value
            THEN Ok(StorageWriter_clear_graph(w, graph.graph).w)
            ELSE IF silent THEN Ok(w) ELSE Err(w)
      [] graph.kind = "DefaultGraph" -> Ok(StorageWriter_clear_graph(w, DefaultGraph).w)
      [] graph.kind = "NamedGraphs" -> Ok(StorageWriter_clear_all_named_graphs(w).w)
      [] graph.kind = "AllGraphs" -> Ok(StorageWriter_clear_all_graphs(w).w)

\* DROP of a named graph that clears it and keeps its entry in GRAPHS
eval_drop_keeping_entry(w, graph, silent) ==
    CASE graph.kind = "NamedNode" ->
            IF Transaction_contains_key_for_update(w, "graphs",
                                                   write_term(EncodeTerm(graph.graph)))
               \/ silent
            THEN Ok(StorageWriter_clear_graph(w, graph.graph).w)
            ELSE Err(w)
      [] graph.kind = "DefaultGraph" -> Ok(StorageWriter_clear_graph(w, DefaultGraph).w)
      [] graph.kind = "NamedGraphs" -> Ok(StorageWriter_remove_all_named_graphs(w).w)
      [] graph.kind = "AllGraphs" -> Ok(StorageWriter_clear(w).w)

\* DROP ALL that removes the quads only, as CLEAR ALL does
eval_drop_as_clear(w, graph, silent) ==
    CASE graph.kind = "NamedNode" ->
            ok_or_silent(StorageWriter_remove_named_graph(w, graph.graph), silent)
      [] graph.kind = "DefaultGraph" -> Ok(StorageWriter_clear_graph(w, DefaultGraph).w)
      [] graph.kind = "NamedGraphs" -> Ok(StorageWriter_remove_all_named_graphs(w).w)
      [] graph.kind = "AllGraphs" -> Ok(StorageWriter_clear_all_graphs(w).w)

\* DROP that fails on an absent graph although SILENT
eval_drop_never_silent(w, graph, silent) ==
    CASE graph.kind = "NamedNode" ->
            ok_or_silent(StorageWriter_remove_named_graph(w, graph.graph), FALSE)
      [] graph.kind = "DefaultGraph" -> Ok(StorageWriter_clear_graph(w, DefaultGraph).w)
      [] graph.kind = "NamedGraphs" -> Ok(StorageWriter_remove_all_named_graphs(w).w)
      [] graph.kind = "AllGraphs" -> Ok(StorageWriter_clear(w).w)

\* DROP DEFAULT that removes the quads of every graph
eval_drop_default_as_all(w, graph, silent) ==
    CASE graph.kind = "NamedNode" ->
            ok_or_silent(StorageWriter_remove_named_graph(w, graph.graph), silent)
      [] graph.kind = "DefaultGraph" -> Ok(StorageWriter_clear_all_graphs(w).w)
      [] graph.kind = "NamedGraphs" -> Ok(StorageWriter_remove_all_named_graphs(w).w)
      [] graph.kind = "AllGraphs" -> Ok(StorageWriter_clear(w).w)

eval_drop(w, graph, silent) ==
    CASE graph.kind = "NamedNode" ->
            ok_or_silent(StorageWriter_remove_named_graph(w, graph.graph), silent)
      [] graph.kind = "DefaultGraph" -> Ok(StorageWriter_clear_graph(w, DefaultGraph).w)
      [] graph.kind = "NamedGraphs" -> Ok(StorageWriter_remove_all_named_graphs(w).w)
      [] graph.kind = "AllGraphs" -> Ok(StorageWriter_clear(w).w)

\* the error a failed operation returns: EvaluationError::msg of its message
EvaluationError_msg(update) ==
    [kind |-> "Query",
     message |-> CASE update.op = "Create" -> "The graph already exists"
                   [] OTHER -> "The graph does not exists",
     graph |-> IF update.op = "Create" THEN update.graph ELSE update.target.graph]

\* an error of the storage, as EvaluationError::Io
StorageError == [kind |-> "Io", inner |-> [kind |-> "io::Error", error |-> "Corruption"]]

\* the closure of evaluate_update turns the error of eval_all into an io::Error
closure_map_err(e) ==
    IF e.kind = "Io" THEN e.inner
    ELSE [kind |-> "io::Error", error |-> "Other", inner |-> e]

\* an outcome conversion that wraps every io::Error
evaluate_update_map_err_wrapping(e) == [kind |-> "Io", inner |-> e]

\* evaluate_update turns the io::Error of Storage::transaction back
evaluate_update_map_err(e) ==
    IF "inner" \in DOMAIN e /\ e.inner.kind \in {"Query", "Io"}
    THEN e.inner
    ELSE [kind |-> "Io", inner |-> e]


(***************************************************************************)
(* What a state of the database shows to its readers: the quads of each    *)
(* index, the graph names, and for each string hash its reference count    *)
(* and the string get_str gives.                                           *)
(***************************************************************************)
AllHashes == {SipHash24(StringTable[i]) : i \in 1..Len(StringTable)}

RefCount(state, h) == IF h \in DOMAIN state.id2str THEN state.id2str[h].count ELSE 0

RefCounts(state) == [h \in AllHashes |-> RefCount(state, h)]

IndexQuads(state, cf) == {decode_key(cf, k) : k \in state.cfs[cf]}

StoredQuads(state) == IndexQuads(state, "dspo") \cup IndexQuads(state, "spog")

StoredGraphs(state) == {decode_graph_key(k) : k \in state.cfs["graphs"]}

Visible(state) ==
    [cfs |-> state.cfs,
     strs |-> [h \in AllHashes |->
                IF RefCount(state, h) > 0
                THEN [count |-> state.id2str[h].count, str |-> state.id2str[h].str]
                ELSE [count |-> RefCount(state, h), str |-> ""]]]

TxView(w) == Overlay(w, ReadBase(w.read_options))

\* the state the store shows through writer t: its transaction while it runs
CurrentView(t) == IF tx[t].status \in {"active", "failed"} THEN TxView(tx[t]) ELSE db

(***************************************************************************)
(* History, for the statement of properties only.                          *)
(***************************************************************************)
PyAdd(q) == [op |-> "add", quad |-> q]
PyRemove(q) == [op |-> "remove", quad |-> q]
PyAddGraph(g) == [op |-> "add_graph", graph |-> g]
PyRemoveGraph(g) == [op |-> "remove_graph", graph |-> g]

IsInsert(op) == op.op \in {"InsertData", "add"}
IsRemove(op) == op.op \in {"DeleteData", "remove"}

\* the graph names live and ever created after op succeeded
GhostAfter(op, live, created) ==
    CASE IsInsert(op) ->
            [live |-> IF op.quad.graph_name.kind = "DefaultGraph" THEN live
                      ELSE live \cup {op.quad.graph_name},
             created |-> created]
      [] op.op \in {"Create", "add_graph"} ->
            IF op.graph.kind = "DefaultGraph" THEN [live |-> live, created |-> created]
            ELSE [live |-> live \cup {op.graph}, created |-> created \cup {op.graph}]
      [] op.op = "remove_graph" -> [live |-> live \ {op.graph}, created |-> created]
      [] op.op = "Drop" ->
            [live |-> CASE op.target.kind = "NamedNode" -> live \ {op.target.graph}
                        [] op.target.kind = "DefaultGraph" -> live
                        [] OTHER -> {},
             created |-> created]
      [] OTHER -> [live |-> live, created |-> created]

IdemNone == [stage |-> 0]

\* stage 1: q inserted; 2: q inserted again; 3: q then removed.  The counts before
\* and after the first insert are kept, and whether it made q and q's graph.
IdemAfter(m, op, before, after) ==
    IF IsInsert(op)
    THEN IF m.stage = 1 /\ m.quad = op.quad
         THEN [m EXCEPT !.stage = 2]
         ELSE [stage |-> 1, quad |-> op.quad,
               fresh |-> EncodeQuad(op.quad) \notin StoredQuads(before),
               newGraph |-> /\ op.quad.graph_name.kind # "DefaultGraph"
                            /\ EncodeTerm(op.quad.graph_name) \notin StoredGraphs(before),
               counts |-> RefCounts(before),
               once |-> RefCounts(after)]
    ELSE IF IsRemove(op) /\ m.stage = 2 /\ m.quad = op.quad
         THEN [m EXCEPT !.stage = 3]
         ELSE IdemNone

(***************************************************************************)
(* Snapshot readers.  Db::snapshot makes a reader whose read options carry *)
(* a snapshot of the database; the iterators and the reads of the reader   *)
(* go through these options.  A QuadIter is consumed one quad at a time.   *)
(***************************************************************************)
\* Db::reader: the raw reader, with the read options of the database
Db_reader == [inner |-> "Raw", options |-> DefaultReadOptions]

\* a reader whose read options carry no snapshot
Db_snapshot_latest == [inner |-> "Snapshot", options |-> DefaultReadOptions]

\* Db::snapshot
Db_snapshot == [inner |-> "Snapshot", options |-> [snapshot |-> SnapshotOf(db)]]

ClosedReader == [status |-> "closed"]

\* no term is on its way through the encoder and the decoder
NoCodec == [stage |-> "none"]

Pattern(s, p, o, g) == [subject |-> s, predicate |-> p, object |-> o, graph_name |-> g]

\* the patterns the snapshot reader iterates over
ReaderPatterns ==
    {Pattern(None, None, None, None),
     Pattern(Some(EncodeTerm(NodeA)), None, None, None),
     Pattern(None, None, Some(EncodeTerm(Int255)), Some(EncodedDefaultGraph)),
     Pattern(None, None, None, Some(EncodeTerm(GraphG1)))}

PatternQuads(r, w, pattern) ==
    quads_for_pattern(r, w, pattern.subject, pattern.predicate, pattern.object,
                      pattern.graph_name)

(***************************************************************************)
(* SimpleUpdateEvaluator on data and templates with blank nodes and        *)
(* variables.  The blank nodes of an operation are kept in a map from the  *)
(* label written in the request to the blank node made for it; a new blank *)
(* node (OxBlankNode::default, a random identifier) is one that was not    *)
(* made before: next counts them.  A solution of the WHERE pattern binds   *)
(* variables to encoded terms, which are decoded through the dataset.      *)
(***************************************************************************)
Variable(name) == [kind |-> "Variable", name |-> name]

NoBnodes(next) == [bnodes |-> <<>>, next |-> next]

\* a conversion that keeps the blank node of the request
convert_blank_node_as_written(node, st) == [term |-> node, st |-> st]

\* convert_blank_node: bnodes.entry(node).or_default()
convert_blank_node(node, st) ==
    IF node.str \in DOMAIN st.bnodes
    THEN [term |-> st.bnodes[node.str], st |-> st]
    ELSE [term |-> NumericalBlankNode(st.next),
          st |-> [bnodes |-> [l \in DOMAIN st.bnodes \cup {node.str} |->
                                IF l = node.str THEN NumericalBlankNode(st.next)
                                ELSE st.bnodes[l]],
                  next |-> st.next + 1]]

\* convert_triple: subject and object converted one after the other with the map
RECURSIVE convert_term(_, _)

made_triple(subject_term, predicate, object) ==
    [term |-> Triple(subject_term, predicate, object.term), st |-> object.st]

convert_triple_object(triple, subject) ==
    made_triple(subject.term, triple.predicate, convert_term(triple.object, subject.st))

convert_triple(triple, st) == convert_triple_object(triple, convert_term(triple.subject, st))

\* the subject and object arms of convert_quad and convert_triple
convert_term(term, st) ==
    CASE term.kind = "BlankNode" -> convert_blank_node(term, st)
      [] term.kind = "Triple" -> convert_triple(term, st)
      [] OTHER -> [term |-> term, st |-> st]

made_quad(triple, graph_name) ==
    [quad |-> Quad(triple.term.subject, triple.term.predicate, triple.term.object,
                   graph_name),
     st |-> triple.st]

convert_quad(quad, st) == made_quad(convert_triple(quad, st), quad.graph_name)

\* eval_insert_data: the quads of the data converted one after the other with one map
RECURSIVE insert_data_quads(_, _, _)

insert_data_next(rest, converted, out) ==
    insert_data_quads(rest, converted.st, Append(out, converted.quad))

insert_data_quads(data, st, out) ==
    IF data = <<>> THEN [out |-> out, st |-> st]
    ELSE insert_data_next(Tail(data), convert_quad(Head(data), st), out)

\* the results of the conversions of patterns: Err, Ok(None), Ok(Some(term))
ConvertErr(st) == [err |-> TRUE, some |-> FALSE, st |-> st]
ConvertNone(st) == [err |-> FALSE, some |-> FALSE, st |-> st]
ConvertSome(term, st) == [err |-> FALSE, some |-> TRUE, term |-> term, st |-> st]

\* a lookup that gives the value of the first variable for every variable
lookup_variable_first(v, values) == values.x

\* lookup_variable: the value of the variable in the solution, if it has one
lookup_variable(v, values) == IF v.name \in DOMAIN values THEN values[v.name] ELSE None

named_node_only(decoded) ==
    IF decoded.err THEN decoded
    ELSE IF decoded.term.kind = "NamedNode" THEN decoded
    ELSE DecoderError("Decoder")

\* decode_named_node: decode_term, and an error for what is not a named node
decode_named_node(r, w, encoded) == named_node_only(decode_term(r, w, encoded))

\* .transpose()?: the decoded term, or the error of the decoder
decoded_or_err(decoded, st) ==
    IF decoded.err THEN ConvertErr(st) ELSE ConvertSome(decoded.term, st)

named_node_of_value(node, w, st) ==
    IF ~node.some THEN ConvertNone(st)
    ELSE decoded_or_err(decode_named_node(Transaction_reader(w), w, node.term), st)

convert_named_node_or_var(term, values, w, st) ==
    IF term.kind = "Variable"
    THEN named_node_of_value(lookup_variable(term, values), w, st)
    ELSE ConvertSome(term, st)

graph_name_of_value(node, w, st) ==
    IF ~node.some THEN ConvertNone(st)
    ELSE IF node.term = EncodedDefaultGraph THEN ConvertSome(DefaultGraph, st)
    ELSE decoded_or_err(decode_named_node(Transaction_reader(w), w, node.term), st)

convert_graph_name_or_var(term, values, w, st) ==
    IF term.kind = "Variable"
    THEN graph_name_of_value(lookup_variable(term, values), w, st)
    ELSE ConvertSome(term, st)

term_of_value(node, w, st) ==
    IF ~node.some THEN ConvertNone(st)
    ELSE decoded_or_err(decode_term(Transaction_reader(w), w, node.term), st)

some_blank_node(converted) == ConvertSome(converted.term, converted.st)

\* convert_triple_pattern: subject, predicate and object are converted in this
\* order; the first position that is none (or a subject that is a literal) ends the
\* conversion with none, an error ends it with the error
RECURSIVE convert_term_or_var(_, _, _, _)

pattern_triple(subject_term, predicate_term, object) ==
    IF object.err \/ ~object.some THEN object
    ELSE ConvertSome(Triple(subject_term, predicate_term, object.term), object.st)

pattern_object(triple, values, w, subject_term, predicate) ==
    IF predicate.err \/ ~predicate.some THEN predicate
    ELSE CHOOSE only \in {pattern_triple(subject_term, predicate.term, object) :
                            object \in {convert_term_or_var(triple.object, values, w,
                                                            predicate.st)}} :
            TRUE

pattern_predicate(triple, values, w, subject) ==
    IF subject.err THEN subject
    ELSE IF ~subject.some \/ subject.term.kind = "Literal" THEN ConvertNone(subject.st)
    ELSE CHOOSE only \in {pattern_object(triple, values, w, subject.term, predicate) :
                            predicate \in {convert_named_node_or_var(triple.predicate, values,
                                                                     w, subject.st)}} :
            TRUE

convert_triple_pattern(triple, values, w, st) ==
    CHOOSE only \in {pattern_predicate(triple, values, w, subject) :
                        subject \in {convert_term_or_var(triple.subject, values, w, st)}} :
        TRUE

convert_term_or_var(term, values, w, st) ==
    CASE term.kind = "BlankNode" -> some_blank_node(convert_blank_node(term, st))
      [] term.kind = "Triple" -> convert_triple_pattern(term, values, w, st)
      [] term.kind = "Variable" -> term_of_value(lookup_variable(term, values), w, st)
      [] OTHER -> ConvertSome(term, st)

pattern_quad(triple, graph_name) ==
    IF graph_name.err \/ ~graph_name.some THEN graph_name
    ELSE [err |-> FALSE, some |-> TRUE, st |-> graph_name.st,
          quad |-> Quad(triple.term.subject, triple.term.predicate, triple.term.object,
                        graph_name.term)]

pattern_graph_name(quad, values, w, triple) ==
    IF triple.err \/ ~triple.some THEN triple
    ELSE CHOOSE only \in {pattern_quad(triple, graph_name) :
                            graph_name \in {convert_graph_name_or_var(quad.graph_name,
                                                                      values, w, triple.st)}} :
            TRUE

\* convert_quad_pattern: the quad of an INSERT template for a solution, none when a
\* position has no value, an error when a value cannot be decoded for its position
convert_quad_pattern(quad, values, w, st) ==
    CHOOSE only \in {pattern_graph_name(quad, values, w, triple) :
                        triple \in {convert_triple_pattern(quad, values, w, st)}} :
        TRUE

\* convert_ground_quad_pattern: the same conversion for a DELETE template, which has
\* no blank node
convert_ground_quad_pattern(quad, values, w) == convert_quad_pattern(quad, values, w, NoBnodes(0))

\* a map that is not cleared
keep_bnodes(st) == st

\* bnodes.clear()
clear_bnodes(st) == [st EXCEPT !.bnodes = <<>>]

Written(kind, row, template, quad) ==
    [kind |-> kind, row |-> row, template |-> template, quad |-> quad]

\* the writes of the evaluator: the indexes and the string store of the transaction
\* are written for the quads of QuadUniverse, the quads the binary keys are made
\* for; every quad written is also kept in the set of quads of the evaluation
Writer_remove(w, quad) ==
    IF quad \in QuadUniverse THEN StorageWriter_remove(w, quad).w ELSE w

Writer_insert(w, quad) ==
    IF quad \in QuadUniverse THEN StorageWriter_insert(w, quad).w ELSE w

\* self.transaction.remove of the quad of a DELETE template, if it has one
after_remove(acc, template, converted) ==
    IF converted.err THEN [acc EXCEPT !.err = TRUE]
    ELSE IF converted.some
    THEN [acc EXCEPT !.w = Writer_remove(@, converted.quad),
                     !.quads = @ \ {converted.quad},
                     !.log = Append(@, Written("remove", acc.row, template,
                                               converted.quad))]
    ELSE acc

\* self.transaction.insert of the quad of an INSERT template, if it has one
after_insert(acc, template, converted) ==
    IF converted.err THEN [acc EXCEPT !.err = TRUE]
    ELSE IF converted.some
    THEN [acc EXCEPT !.w = Writer_insert(@, converted.quad),
                     !.quads = @ \cup {converted.quad}, !.st = converted.st,
                     !.log = Append(@, Written("insert", acc.row, template,
                                               converted.quad))]
    ELSE [acc EXCEPT !.st = converted.st]

\* the DELETE templates of eval_delete_insert for one solution
\* In the operators below, CHOOSE only \in {F(v) : v \in {e}} : TRUE is F(e) with e
\* computed once.
RECURSIVE delete_each(_, _, _)
delete_each(templates, values, acc) ==
    IF templates = <<>> \/ acc.err THEN acc
    ELSE CHOOSE only \in
            {delete_each(Tail(templates), values, after_remove(acc, Head(templates), converted)) :
                converted \in {convert_ground_quad_pattern(Head(templates), values, acc.w)}} :
            TRUE

\* the INSERT templates of eval_delete_insert for one solution
RECURSIVE insert_each(_, _, _)
insert_each(templates, values, acc) ==
    IF templates = <<>> \/ acc.err THEN acc
    ELSE CHOOSE only \in
            {insert_each(Tail(templates), values, after_insert(acc, Head(templates), converted)) :
                converted \in {convert_quad_pattern(Head(templates), values, acc.w, acc.st)}} :
            TRUE

after_solution(done) == IF done.err THEN done ELSE [done EXCEPT !.st = clear_bnodes(@)]

\* DELETE/INSERT that applies its templates once although there is no solution
eval_delete_insert_once(delete, insert, tuples, acc) ==
    insert_each(insert, [x |-> None, y |-> None],
                delete_each(delete, [x |-> None, y |-> None], acc))

\* eval_delete_insert: for each solution the DELETE templates, the INSERT templates,
\* and the map of blank nodes cleared; the first error ends the evaluation.  acc is
\* the evaluation so far: the transaction w, whose reader the values of the solutions
\* are decoded through, the map of blank nodes, and the quads written: quads is the
\* set of quads the transaction holds and log the calls of transaction.remove and
\* transaction.insert made, in order
RECURSIVE eval_delete_insert(_, _, _, _)
eval_delete_insert(delete, insert, tuples, acc) ==
    IF tuples = <<>> \/ acc.err THEN acc
    ELSE CHOOSE only \in
            {eval_delete_insert(delete, insert, Tail(tuples), after) :
                after \in {after_solution(
                              insert_each(insert, Head(tuples),
                                          delete_each(delete, Head(tuples),
                                                      [acc EXCEPT !.row = @ + 1])))}} :
            TRUE

\* the evaluation of a DELETE/INSERT before its first solution
NoneWritten(w, stored, next) ==
    [err |-> FALSE, w |-> w, quads |-> stored, row |-> 0, st |-> NoBnodes(next),
     log |-> <<>>]

\* the keys of an iterator in the order it yields them: the i-th key
nth_key(keys, i) == CHOOSE k \in keys : Cardinality({j \in keys : BytesLess(j, k)}) = i - 1

\* rocksdb_iter_seek(prefix), or rocksdb_iter_seek_to_first for the empty prefix:
\* the first key that is not below the prefix
iter_seek(keys, prefix) ==
    IF {k \in keys : ~BytesLess(k, prefix)} = {} THEN None
    ELSE Some(nth_key({k \in keys : ~BytesLess(k, prefix)}, 1))

\* rocksdb_iter_next: the first key above the current one
iter_next(keys, current) ==
    IF {k \in keys : BytesLess(current, k)} = {} THEN None
    ELSE Some(nth_key({k \in keys : BytesLess(current, k)}, 1))

\* a position of a WHERE quad pattern as a position of quads_for_pattern
pattern_position(term) == IF term.kind = "Variable" THEN None ELSE Some(EncodeTerm(term))

\* the value a variable takes from the quad matched: the term at its position
binding(pattern, quad, name) ==
    CASE pattern.subject = Variable(name) -> Some(quad.subject)
      [] pattern.predicate = Variable(name) -> Some(quad.predicate)
      [] pattern.object = Variable(name) -> Some(quad.object)
      [] pattern.graph_name = Variable(name) -> Some(quad.graph_name)
      [] OTHER -> None

\* the solutions of one scan: one for each key, in the order of the keys
scan_tuples(pattern, cf, keys) ==
    [i \in 1..Cardinality(keys) |->
        [x |-> binding(pattern, decode_key(cf, nth_key(keys, i)), "x"),
         y |-> binding(pattern, decode_key(cf, nth_key(keys, i)), "y")]]

RECURSIVE scans_tuples(_, _, _)
scans_tuples(pattern, w, scans) ==
    IF scans = <<>> THEN <<>>
    ELSE (CHOOSE only \in
            {scan_tuples(pattern, Head(scans).cf, keys) :
                keys \in {Reader_scan_prefix(Transaction_reader(w), w, Head(scans).cf,
                                             PatternPrefix(Head(scans).bound)).keys}} :
            TRUE)
         \o scans_tuples(pattern, w, Tail(scans))

\* the keys among keys an iterator made for prefix runs over
in_range(keys, prefix) ==
    {k \in keys : /\ ~BytesLess(k, prefix)
                  /\ upper_bound(prefix).found => BytesLess(k, upper_bound(prefix).bound)}

\* the keys the write batch of transaction w has an entry for, a put or a delete
BatchKeys(w, cf) == PutKeys(w, cf) \cup DelKeys(w, cf)

(***************************************************************************)
(* The iterator of a transaction (rocksdb_transaction_create_iterator_cf)  *)
(* merges an iterator over the snapshot of the transaction (base) with an  *)
(* iterator over the entries of its write batch (delta).  Each has its own *)
(* position, the first key not yet passed; the entries of the write batch  *)
(* are read as they are when the iterator moves, so an entry written after *)
(* the iterator was made is met when it lies after the position of delta.  *)
(* at says which of the two is on the current key.                         *)
(***************************************************************************)
TxnIter(base, delta, at) ==
    [base |-> base, delta |-> delta, at |-> at,
     current |-> IF at = "base" THEN base ELSE delta]

advance_base(w, scan, base) ==
    iter_next(in_range(ReadBase(w.read_options).cfs[scan.cf], PatternPrefix(scan.bound)),
              base.term)

advance_delta(w, scan, delta) ==
    iter_next(in_range(BatchKeys(w, scan.cf), PatternPrefix(scan.bound)), delta.term)

\* the current key of the merged iterator: the smaller of the two keys, the entry of
\* the write batch when they are equal; a delete of the write batch is passed, with
\* the key of the snapshot it deletes
RECURSIVE update_current(_, _, _, _)
update_current(w, scan, base, delta) ==
    IF ~delta.some THEN TxnIter(base, delta, "base")
    ELSE IF base.some /\ BytesLess(base.term, delta.term) THEN TxnIter(base, delta, "base")
    ELSE IF delta.term \in DelKeys(w, scan.cf)
    THEN (IF base.some /\ base.term = delta.term
          THEN update_current(w, scan, advance_base(w, scan, base),
                              advance_delta(w, scan, delta))
          ELSE update_current(w, scan, base, advance_delta(w, scan, delta)))
    ELSE IF base.some /\ base.term = delta.term THEN TxnIter(base, delta, "both")
    ELSE TxnIter(base, delta, "delta")

\* scan_prefix through the reader of transaction w: both iterators seek the prefix
txn_iter_seek(w, scan) ==
    update_current(w, scan,
                   iter_seek(in_range(ReadBase(w.read_options).cfs[scan.cf],
                                      PatternPrefix(scan.bound)),
                             PatternPrefix(scan.bound)),
                   iter_seek(in_range(BatchKeys(w, scan.cf), PatternPrefix(scan.bound)),
                             PatternPrefix(scan.bound)))

\* Iter::next in transaction w as it is now
txn_iter_next(w, scan, it) ==
    CASE it.at = "both" ->
            update_current(w, scan, advance_base(w, scan, it.base),
                           advance_delta(w, scan, it.delta))
      [] it.at = "base" -> update_current(w, scan, advance_base(w, scan, it.base), it.delta)
      [] it.at = "delta" -> update_current(w, scan, it.base, advance_delta(w, scan, it.delta))

\* the solution of the key the iterator is on
tuple_of(pattern, cf, key) ==
    [x |-> binding(pattern, decode_key(cf, key), "x"),
     y |-> binding(pattern, decode_key(cf, key), "y")]

\* an evaluation that is streamed: the evaluation so far and the solutions met
Streamed(acc, tuples) == [acc |-> acc, tuples |-> tuples]

\* the loop of eval_delete_insert over the iterators of the scans of the pattern, made
\* before the first write: the solution of the current key, the templates written
\* for it, then the next key
RECURSIVE stream_solutions(_, _, _, _, _, _)
stream_solutions(pattern, delete, insert, scans, its, done) ==
    IF scans = <<>> \/ done.acc.err THEN done
    ELSE IF ~Head(its).current.some
    THEN stream_solutions(pattern, delete, insert, Tail(scans), Tail(its), done)
    ELSE CHOOSE only \in
            {stream_solutions(pattern, delete, insert, scans,
                              <<txn_iter_next(after.w, Head(scans), Head(its))>>
                              \o Tail(its),
                              Streamed(after, Append(done.tuples, tuple))) :
                tuple \in {tuple_of(pattern, Head(scans).cf, Head(its).current.term)},
                after \in {after_solution(
                              insert_each(insert, tuple_of(pattern, Head(scans).cf,
                                                           Head(its).current.term),
                                          delete_each(delete,
                                                      tuple_of(pattern, Head(scans).cf,
                                                               Head(its).current.term),
                                                      [done.acc EXCEPT !.row = @ + 1])))}} :
            TRUE

\* the iterators of the scans of a pattern in transaction w
txn_iters(w, scans) == [i \in 1..Len(scans) |-> txn_iter_seek(w, scans[i])]

\* the solutions of a WHERE pattern made of one quad pattern: the dataset reads
\* through the reader of the transaction (DatasetView::new(self.transaction.reader()))
plan_evaluator(w, pattern) ==
    scans_tuples(pattern, w,
                 select_index(pattern_position(pattern.subject),
                              pattern_position(pattern.predicate),
                              pattern_position(pattern.object),
                              pattern_position(pattern.graph_name)))

\* the quads of the universe transaction w shows
UniverseQuads(w) ==
    {q \in QuadUniverse :
        EncodeQuad(q) \in {decode_key("dspo", k) : k \in OverlayCf(w, ReadBase(w.read_options), "dspo")}
                         \cup {decode_key("spog", k) : k \in OverlayCf(w, ReadBase(w.read_options), "spog")}}

delete_insert_result(done) == IF done.err THEN Err(done.w) ELSE Ok(done.w)

\* the scans a WHERE pattern made of one quad pattern is answered with
pattern_scans(pattern) ==
    select_index(pattern_position(pattern.subject), pattern_position(pattern.predicate),
                 pattern_position(pattern.object), pattern_position(pattern.graph_name))

\* the solutions the loop of eval_delete_insert meets in transaction w: the iterators
\* are made before the loop and moved between the writes of the templates
streamed_tuples(w, delete, insert, pattern) ==
    stream_solutions(pattern, delete, insert, pattern_scans(pattern),
                     txn_iters(w, pattern_scans(pattern)),
                     Streamed(NoneWritten(w, UniverseQuads(w), 0), <<>>)).tuples

\* eval_delete_insert in transaction w with the solutions of the pattern, as the loop
\* meets them
eval_delete_insert_where(w, delete, insert, pattern) ==
    CHOOSE only \in
        {delete_insert_result(eval_delete_insert(delete, insert, tuples, acc)) :
            tuples \in {streamed_tuples(w, delete, insert, pattern)},
            acc \in {NoneWritten(w, UniverseQuads(w), 0)}} :
        TRUE

\* SimpleUpdateEvaluator::eval: the operation is evaluated by its kind
eval(w, update) ==
    CASE update.op = "InsertData" -> eval_insert_data(w, update.quad)
      [] update.op = "DeleteData" -> eval_delete_data(w, update.quad)
      [] update.op = "Clear" -> eval_clear(w, update.target, update.silent)
      [] update.op = "Create" -> eval_create(w, update.graph, update.silent)
      [] update.op = "Drop" -> eval_drop(w, update.target, update.silent)

NoEvaluator == [stage |-> "none"]

(***************************************************************************)
(* Actions.  An update request runs in one transaction (evaluate_update):  *)
(* Begin, then one Eval per operation, then Commit, or Rollback when an    *)
(* operation failed.  The calls of the Python store (add, remove,          *)
(* add_graph, remove_graph) each run a whole transaction of one write.     *)
(***************************************************************************)
Init ==
    /\ db = EmptyDb
    /\ tx = [t \in Txs |-> IdleTx]
    /\ everCreated = {}
    /\ liveGraphs = {}
    /\ idem = IdemNone
    /\ rd = ClosedReader
    /\ codec = NoCodec
    /\ ev = NoEvaluator

\* evaluate_update: Storage::transaction begins the transaction of the request
Begin(t) ==
    /\ tx[t].status \in {"idle", "ended"}
    /\ tx' = [tx EXCEPT ![t] = Db_transaction]
    /\ UNCHANGED <<db, everCreated, liveGraphs, idem, rd, codec, ev>>

\* the transaction and the history after update evaluated to res
Evaluated(t, update, res) ==
    /\ tx' = [tx EXCEPT ![t] =
                IF res.err
                THEN [@ EXCEPT !.status = "failed", !.step = "eval", !.nops = @ + 1,
                               !.lastOp = update, !.lastResult = "Err",
                               !.changed = FALSE, !.error = EvaluationError_msg(update)]
                ELSE [res.w EXCEPT !.step = "eval", !.nops = @ + 1,
                                   !.lastOp = update, !.lastResult = "Ok",
                                   !.changed = (res.w # tx[t]),
                                   !.live = GhostAfter(update, @, tx[t].created).live,
                                   !.created = GhostAfter(update, tx[t].live, @).created]]
    /\ idem' = IF res.err THEN IdemNone
               ELSE IdemAfter(idem, update, TxView(tx[t]), TxView(res.w))

\* eval_all: the next operation of the request is evaluated
Eval(t, update) ==
    /\ tx[t].status = "active"
    /\ tx[t].nops < MaxOps
    /\ Evaluated(t, update, eval(tx[t], update))
    /\ UNCHANGED <<db, everCreated, liveGraphs, rd, codec, ev>>

\* the closure of the request returned Ok: the transaction commits
Commit(t) ==
    /\ tx[t].status = "active"
    /\ LET done == Transaction_commit(tx[t])
       IN  /\ db' = done.db
           /\ tx' = [tx EXCEPT ![t] = done.w]
    /\ liveGraphs' = tx[t].live
    /\ everCreated' = tx[t].created
    /\ UNCHANGED <<idem, rd, codec, ev>>

\* the closure of the request returned an error: the transaction is rolled back
Rollback(t) ==
    /\ tx[t].status = "failed"
    /\ LET done == Transaction_rollback(tx[t])
       IN  /\ db' = done.db
           /\ tx' = [tx EXCEPT ![t] =
                        [done.w EXCEPT !.returned =
                            evaluate_update_map_err(closure_map_err(tx[t].error))]]
    /\ idem' = IdemNone
    /\ UNCHANGED <<everCreated, liveGraphs, rd, codec, ev>>

\* a transaction of one write: begun, written (w is the transaction after the write)
\* and committed
AutoCommit(t, op, w) ==
    LET ghost == GhostAfter(op, liveGraphs, everCreated)
        w1 == [w EXCEPT !.lastOp = op, !.lastResult = "Ok",
                        !.changed = (w # Db_transaction),
                        !.live = ghost.live, !.created = ghost.created]
        done == Transaction_commit(w1)
    IN  /\ db' = done.db
        /\ tx' = [tx EXCEPT ![t] = [done.w EXCEPT !.step = "api"]]
        /\ liveGraphs' = ghost.live
        /\ everCreated' = ghost.created
        /\ idem' = IdemAfter(idem, op, db, done.db)
        /\ UNCHANGED <<rd, codec, ev>>

\* PyStore.add
PyStore_add(t, quad) ==
    /\ tx[t].status \in {"idle", "ended"}
    /\ AutoCommit(t, PyAdd(quad), StorageWriter_insert(Db_transaction, quad).w)

\* PyStore.remove
PyStore_remove(t, quad) ==
    /\ tx[t].status \in {"idle", "ended"}
    /\ AutoCommit(t, PyRemove(quad), StorageWriter_remove(Db_transaction, quad).w)

\* PyStore.add_graph: nothing is done for the default graph
PyStore_add_graph(t, graph_name) ==
    /\ tx[t].status \in {"idle", "ended"}
    /\ IF graph_name.kind = "DefaultGraph"
       THEN UNCHANGED vars
       ELSE AutoCommit(t, PyAddGraph(graph_name),
                       StorageWriter_insert_named_graph(Db_transaction, graph_name).w)

\* PyStore.remove_graph: the default graph is cleared, a named graph is removed
PyStore_remove_graph(t, graph_name) ==
    /\ tx[t].status \in {"idle", "ended"}
    /\ IF graph_name.kind = "DefaultGraph"
       THEN AutoCommit(t, PyRemoveGraph(graph_name),
                       StorageWriter_clear_graph(Db_transaction, DefaultGraph).w)
       ELSE AutoCommit(t, PyRemoveGraph(graph_name),
                       StorageWriter_remove_named_graph(Db_transaction, graph_name).w)

\* a compaction of ID2STR runs the compaction filter over its entries
Compact ==
    /\ \E h \in DOMAIN db.id2str : id2str_filter(db.id2str[h]) = "Remove"
    /\ db' = [db EXCEPT !.id2str = compactionfilter_filter(@)]
    /\ UNCHANGED <<tx, everCreated, liveGraphs, idem, rd, codec, ev>>

Next ==
    \/ \E t \in Txs : Begin(t)
    \/ \E t \in Txs, update \in UpdateOps : Eval(t, update)
    \/ \E t \in Txs : Commit(t)
    \/ \E t \in Txs : Rollback(t)
    \/ \E t \in Txs, quad \in QuadUniverse : PyStore_add(t, quad)
    \/ \E t \in Txs, quad \in QuadUniverse : PyStore_remove(t, quad)
    \/ \E t \in Txs, graph_name \in GraphUniverse : PyStore_add_graph(t, graph_name)
    \/ \E t \in Txs, graph_name \in GraphUniverse : PyStore_remove_graph(t, graph_name)
    \/ Compact

Spec == Init /\ [][Next]_vars

(***************************************************************************)
(* Readers next to a writer.  PyStore.quads_for_pattern takes a snapshot   *)
(* and makes the iterators of the pattern; the QuadIter it returns is      *)
(* consumed by __next__ while the writer commits; a query reads through    *)
(* one snapshot for its whole evaluation.  taken is history: the database  *)
(* at the time the snapshot was made.                                      *)
(***************************************************************************)
PyStore_quads_for_pattern(pattern) ==
    /\ rd.status = "closed"
    /\ rd' = [status |-> "open", reader |-> Db_snapshot, taken |-> db,
              pattern |-> pattern, yielded |-> {}]
    /\ UNCHANGED <<db, tx, everCreated, liveGraphs, idem, codec, ev>>

\* QuadIter.__next__: the next quad of the iterator, or its end
QuadIter_next ==
    /\ rd.status = "open"
    /\ LET left == PatternQuads(rd.reader, IdleTx, rd.pattern).quads \ rd.yielded
       IN  IF left = {}
           THEN rd' = [rd EXCEPT !.status = "done"]
           ELSE \E q \in left : rd' = [rd EXCEPT !.yielded = @ \cup {q}]
    /\ UNCHANGED <<db, tx, everCreated, liveGraphs, idem, codec, ev>>

\* evaluate_query: the snapshot a query reads from for its whole evaluation
Storage_snapshot ==
    /\ rd.status = "closed"
    /\ rd' = [status |-> "snapshot", reader |-> Db_snapshot, taken |-> db,
              seen |-> [read |-> FALSE]]
    /\ UNCHANGED <<db, tx, everCreated, liveGraphs, idem, codec, ev>>

\* a point read through the reader of the snapshot (StorageReader::contains)
Snapshot_contains(quad) ==
    /\ rd.status = "snapshot"
    /\ rd' = [rd EXCEPT !.seen = [read |-> TRUE, quad |-> quad,
                                  value |-> contains(rd.reader, IdleTx,
                                                     EncodeQuad(quad)).value]]
    /\ UNCHANGED <<db, tx, everCreated, liveGraphs, idem, codec, ev>>

\* the reader is dropped: InnerSnapshot releases the snapshot
Reader_drop ==
    /\ rd.status # "closed"
    /\ rd' = ClosedReader
    /\ UNCHANGED <<db, tx, everCreated, liveGraphs, idem, codec, ev>>

\* the quads the writer next to the reader adds and removes
SnapshotQuads == {QuadD255, QuadStar}

SnapshotNext ==
    \/ \E t \in Txs, quad \in SnapshotQuads : PyStore_add(t, quad)
    \/ \E t \in Txs, quad \in SnapshotQuads : PyStore_remove(t, quad)
    \/ \E t \in Txs, graph_name \in GraphUniverse : PyStore_remove_graph(t, graph_name)
    \/ \E pattern \in ReaderPatterns : PyStore_quads_for_pattern(pattern)
    \/ QuadIter_next
    \/ Storage_snapshot
    \/ \E quad \in SnapshotQuads : Snapshot_contains(quad)
    \/ Reader_drop

SpecSnapshot == Init /\ [][SnapshotNext]_vars

(***************************************************************************)
(* Update requests whose storage may fail.  An operation of the request    *)
(* whose storage call returns an error (the ? of the evaluator) fails the  *)
(* request with EvaluationError::Io, whatever it had written before.       *)
(***************************************************************************)
Eval_io_error(t, update) ==
    /\ tx[t].status = "active"
    /\ tx[t].nops < MaxOps
    /\ \E w \in {tx[t], eval(tx[t], update).w} :
        tx' = [tx EXCEPT ![t] =
                [w EXCEPT !.status = "failed", !.step = "eval", !.nops = @ + 1,
                          !.lastOp = update, !.lastResult = "Err",
                          !.changed = FALSE, !.error = StorageError]]
    /\ idem' = IdemNone
    /\ UNCHANGED <<db, everCreated, liveGraphs, rd, codec, ev>>

UpdateNext ==
    \/ \E t \in Txs : Begin(t)
    \/ \E t \in Txs, update \in UpdateOps : Eval(t, update)
    \/ \E t \in Txs, update \in UpdateOps : Eval_io_error(t, update)
    \/ \E t \in Txs : Commit(t)
    \/ \E t \in Txs : Rollback(t)

SpecUpdate == Init /\ [][UpdateNext]_vars

(***************************************************************************)
(* Readers next to the transaction of an update request: snapshots are     *)
(* made and read, and iterators are consumed, between the operations of    *)
(* the request, before and after its commit or rollback.                   *)
(***************************************************************************)
IsolationOps ==
    {InsertData(QuadD255), InsertData(QuadStar), DeleteData(QuadD255),
     Create(GraphG2, FALSE), Drop(NamedTarget(GraphG1), FALSE)}

IsolationPatterns ==
    {Pattern(None, None, None, None), Pattern(None, None, None, Some(EncodeTerm(GraphG1)))}

\* StorageReader::contains_named_graph through the reader of the snapshot
Snapshot_contains_named_graph(graph_name) ==
    /\ rd.status = "snapshot"
    /\ rd' = [rd EXCEPT !.seen = [read |-> TRUE, graph |-> graph_name,
                                  value |-> contains_named_graph(rd.reader, IdleTx,
                                                EncodeTerm(graph_name)).value]]
    /\ UNCHANGED <<db, tx, everCreated, liveGraphs, idem, codec, ev>>

IsolationNext ==
    \/ \E t \in Txs : Begin(t)
    \/ \E t \in Txs, update \in IsolationOps : Eval(t, update)
    \/ \E t \in Txs : Commit(t)
    \/ \E t \in Txs : Rollback(t)
    \/ \E pattern \in IsolationPatterns : PyStore_quads_for_pattern(pattern)
    \/ QuadIter_next
    \/ Storage_snapshot
    \/ \E quad \in SnapshotQuads : Snapshot_contains(quad)
    \/ \E graph_name \in NamedGraphUniverse : Snapshot_contains_named_graph(graph_name)
    \/ Reader_drop

SpecIsolation == Init /\ [][IsolationNext]_vars

(***************************************************************************)
(* A transaction next to the commits of other transactions.  While the     *)
(* transaction of an update request runs, other clients of the store add   *)
(* and remove a quad and a graph name, each in a transaction of its own    *)
(* that commits at once; the request reads through the reader of its       *)
(* transaction.  The other clients write keys the request does not write.  *)
(***************************************************************************)
ConcurrentOps ==
    {Create(GraphG2, FALSE), Create(GraphG2, TRUE), Drop(NamedTarget(GraphG2), FALSE),
     Clear(NamedTarget(GraphG1), FALSE)}

\* a read of the request through Transaction::reader (the WHERE of an update)
Transaction_quads_for_pattern(t, pattern) ==
    /\ tx[t].status = "active"
    /\ rd.status = "closed"
    /\ rd' = [status |-> "txread", pattern |-> pattern,
              quads |-> PatternQuads(Transaction_reader(tx[t]), tx[t], pattern).quads]
    /\ UNCHANGED <<db, tx, everCreated, liveGraphs, idem, codec, ev>>

\* another transaction, of one write, begins and commits
Concurrent_commit(op, w) ==
    LET ghost == GhostAfter(op, liveGraphs, everCreated)
    IN  /\ db' = Transaction_commit(w).db
        /\ liveGraphs' = ghost.live
        /\ everCreated' = ghost.created
        /\ idem' = IdemNone
        /\ UNCHANGED <<tx, rd, codec, ev>>

Concurrent_add(quad) ==
    Concurrent_commit(PyAdd(quad), StorageWriter_insert(Db_transaction, quad).w)

Concurrent_remove(quad) ==
    Concurrent_commit(PyRemove(quad), StorageWriter_remove(Db_transaction, quad).w)

Concurrent_add_graph(graph_name) ==
    Concurrent_commit(PyAddGraph(graph_name),
                      StorageWriter_insert_named_graph(Db_transaction, graph_name).w)

Concurrent_remove_graph(graph_name) ==
    Concurrent_commit(PyRemoveGraph(graph_name),
                      StorageWriter_remove_named_graph(Db_transaction, graph_name).w)

ConcurrentNext ==
    \/ \E t \in Txs : Begin(t)
    \/ \E t \in Txs, update \in ConcurrentOps : Eval(t, update)
    \/ \E t \in Txs : Commit(t)
    \/ \E t \in Txs : Rollback(t)
    \/ \E t \in Txs, pattern \in IsolationPatterns : Transaction_quads_for_pattern(t, pattern)
    \/ Reader_drop
    \/ Concurrent_add(QuadD256)
    \/ Concurrent_remove(QuadD256)
    \/ Concurrent_add_graph(GraphG1)
    \/ Concurrent_remove_graph(GraphG1)

SpecConcurrent == Init /\ [][ConcurrentNext]_vars

(***************************************************************************)
(* Update requests with blank nodes and templates.  The request runs in a  *)
(* transaction that has inserted QuadStar; the quads the operations insert *)
(* and remove are kept as a set of quads, and each operation leaves a      *)
(* record of what it was given and what it wrote.                          *)
(***************************************************************************)
\* operations of a request
MaxEvaluated == 2
\* quads of an INSERT DATA, templates of an INSERT, solutions of a WHERE
MaxData == 2
\* templates of a DELETE
MaxDelete == 1

SeqsUpTo(S, n) == UNION {[1..k -> S] : k \in 0..n}

BlankB1 == LabelledBlankNode("b1")
BlankB2 == LabelledBlankNode("b2")
VarX == Variable("x")
VarY == Variable("y")

DataQuads ==
    {Quad(BlankB1, NodeP, NodeA, DefaultGraph),
     Quad(Triple(BlankB1, NodeP, BlankB2), NodeP, Int255, DefaultGraph),
     Quad(NodeA, NodeP, BlankB2, GraphG1)}

InsertTemplates ==
    {Quad(BlankB1, NodeP, VarX, DefaultGraph),
     Quad(VarX, NodeP, Triple(BlankB1, NodeP, VarY), DefaultGraph),
     Quad(NodeA, VarX, VarY, DefaultGraph),
     Quad(NodeA, NodeP, Int255, VarY)}

DeleteTemplates ==
    {Quad(VarX, NodeP, NodeA, DefaultGraph), Quad(NodeA, NodeP, VarY, DefaultGraph)}

Tuple(x, y) == [x |-> x, y |-> y]

\* solutions of a WHERE pattern over the variables x and y
Solutions ==
    {Tuple(Some(EncodeTerm(NodeA)), None),
     Tuple(Some(EncodeTerm(NodeA)), Some(EncodeTerm(NodeP))),
     Tuple(Some(EncodeTerm(Int255)), None),
     Tuple(None, Some(EncodeTerm(Int255))),
     Tuple(Some(EncodeTerm(NumericalBlankNode(0))), None),
     Tuple(Some(EncodeTerm(NodeP)), Some(EncodeTerm(Int255)))}

\* the evaluator e after an INSERT DATA wrote done.out
InsertDataDone(e, data, done) ==
    [e EXCEPT !.quads = @ \cup {done.out[i] : i \in 1..Len(done.out)},
              !.next = done.st.next,
              !.ops = Append(@, [kind |-> "InsertData", data |-> data, out |-> done.out])]

\* the evaluator e after a DELETE/INSERT ended as done
DeleteInsertDone(e, delete, insert, tuples, done) ==
    [e EXCEPT !.stage = IF done.err THEN "failed" ELSE "done",
              !.w = done.w,
              !.quads = done.quads,
              !.next = done.st.next,
              !.ops = Append(@, [kind |-> "DeleteInsert", delete |-> delete,
                                 insert |-> insert, tuples |-> tuples,
                                 log |-> done.log, err |-> done.err])]

\* evaluate_update: the transaction of the request, here with QuadStar inserted
Evaluator_begin ==
    /\ ev.stage = "none"
    /\ ev' = [stage |-> "active", w |-> StorageWriter_insert(Db_transaction, QuadStar).w,
              quads |-> {QuadStar}, next |-> 0, ops |-> <<>>]
    /\ UNCHANGED <<db, tx, everCreated, liveGraphs, idem, rd, codec>>

\* eval_insert_data on data with blank nodes
Evaluator_insert_data(data) ==
    /\ ev.stage = "active"
    /\ Len(ev.ops) < MaxEvaluated
    /\ ev' = InsertDataDone(ev, data, insert_data_quads(data, NoBnodes(ev.next), <<>>))
    /\ UNCHANGED <<db, tx, everCreated, liveGraphs, idem, rd, codec>>

\* the blank node a solution can bind x to
StoreBlankNode == NumericalBlankNode(0)

\* the solutions are read from the dataset before the first write of the operation:
\* a blank node they bind is the subject of a quad that is stored
InDataset(tuples, stored) ==
    \A i \in 1..Len(tuples) :
        tuples[i].x = Some(EncodeTerm(StoreBlankNode))
        => \E quad \in stored : quad.subject = StoreBlankNode

\* eval_delete_insert on the solutions tuples of its WHERE pattern; an error fails
\* the request
Evaluator_delete_insert(delete, insert, tuples) ==
    /\ ev.stage = "active"
    /\ Len(ev.ops) < MaxEvaluated
    /\ InDataset(tuples, ev.quads)
    /\ ev' = DeleteInsertDone(ev, delete, insert, tuples,
                eval_delete_insert(delete, insert, tuples,
                                   NoneWritten(ev.w, ev.quads, ev.next)))
    /\ UNCHANGED <<db, tx, everCreated, liveGraphs, idem, rd, codec>>

TemplatesNext ==
    \/ Evaluator_begin
    \/ \E data \in SeqsUpTo(DataQuads, MaxData) : Evaluator_insert_data(data)
    \/ \E delete \in SeqsUpTo(DeleteTemplates, MaxDelete),
          insert \in SeqsUpTo(InsertTemplates, MaxData),
          tuples \in SeqsUpTo(Solutions, MaxData) :
            Evaluator_delete_insert(delete, insert, tuples)

SpecTemplates == Init /\ [][TemplatesNext]_vars

(***************************************************************************)
(* Update requests with DELETE/INSERT WHERE operations whose pattern is    *)
(* one quad pattern.  The solutions are read through the reader of the     *)
(* transaction when the operation is evaluated; the other operations of    *)
(* the request insert and delete data and create, clear and drop a graph.  *)
(***************************************************************************)
DeleteInsert(delete, insert, pattern) ==
    [op |-> "DeleteInsert", delete |-> delete, insert |-> insert, pattern |-> pattern]

\* WHERE { <a> <p> ?x } and WHERE { GRAPH <g1> { ?x ?y "..."^^<dt> } }
WherePatterns ==
    {Quad(NodeA, NodeP, VarX, DefaultGraph), Quad(VarX, VarY, BigTyped, GraphG1)}

WhereDeleteTemplates ==
    {Quad(NodeA, NodeP, VarX, DefaultGraph), Quad(VarX, VarY, BigTyped, GraphG1)}

\* a template with no variable, and one with variables
WhereInsertTemplates ==
    {Quad(NodeA, NodeP, Int256, DefaultGraph), Quad(VarX, NodeP, BigTyped, GraphG1)}

MaxTemplates == 1

WhereOps ==
    {DeleteInsert(delete, insert, pattern) :
        delete \in SeqsUpTo(WhereDeleteTemplates, MaxTemplates),
        insert \in SeqsUpTo(WhereInsertTemplates, MaxTemplates),
        pattern \in WherePatterns}

DataOps ==
    {InsertData(q) : q \in QuadUniverse}
    \cup {DeleteData(QuadD255), Create(GraphG1, FALSE), Clear(NamedTarget(GraphG1), FALSE),
          Drop(NamedTarget(GraphG1), FALSE)}

\* the error of a value that cannot be decoded, as EvaluationError::Io
DecodingError == [kind |-> "Io", inner |-> [kind |-> "io::Error", error |-> "InvalidData"]]

\* the graph names the transaction shows
TxGraphs(w) == {g \in NamedGraphUniverse : write_term(EncodeTerm(g)) \in OverlayCf(w, ReadBase(w.read_options), "graphs")}

\* the transaction and the history after the DELETE/INSERT update evaluated to res
DeleteInsertEvaluated(t, update, res) ==
    /\ tx' = [tx EXCEPT ![t] =
                IF res.err
                THEN [@ EXCEPT !.status = "failed", !.step = "eval", !.nops = @ + 1,
                               !.lastOp = update, !.lastResult = "Err",
                               !.changed = FALSE, !.error = DecodingError]
                ELSE [res.w EXCEPT !.step = "eval", !.nops = @ + 1,
                                   !.lastOp = update, !.lastResult = "Ok",
                                   !.changed = (res.w # tx[t]),
                                   !.live = (@ \cup TxGraphs(res.w)) \ (TxGraphs(tx[t]) \ TxGraphs(res.w))]]
    /\ idem' = IdemNone

\* eval_all: the next operation of the request is a DELETE/INSERT WHERE, which eval
\* hands to eval_delete_insert
Eval_delete_insert(t, update) ==
    /\ tx[t].status = "active"
    /\ tx[t].nops < MaxOps
    /\ DeleteInsertEvaluated(t, update,
                             eval_delete_insert_where(tx[t], update.delete, update.insert,
                                                      update.pattern))
    /\ UNCHANGED <<db, everCreated, liveGraphs, rd, codec, ev>>

WhereNext ==
    \/ \E t \in Txs : Begin(t)
    \/ \E t \in Txs, update \in DataOps : Eval(t, update)
    \/ \E t \in Txs, update \in WhereOps : Eval_delete_insert(t, update)
    \/ \E t \in Txs : Commit(t)
    \/ \E t \in Txs : Rollback(t)

SpecWhere == Init /\ [][WhereNext]_vars

(***************************************************************************)
(* Update requests with LOAD and with SILENT.  The source of a LOAD is a   *)
(* document: what the HTTP client returns for it, and the triples and      *)
(* syntax errors its parser yields.  The storage calls of an operation may *)
(* fail.                                                                   *)
(***************************************************************************)
Load(silent, source, destination) ==
    [op |-> "Load", silent |-> silent, source |-> source, destination |-> destination]

SyntaxError == [kind |-> "SyntaxError"]

Document(get, content_type, body) ==
    [get |-> get, content_type |-> content_type, body |-> body]

Documents ==
    {Document("Err", "", <<>>),
     Document("Ok", "text/html", <<>>),
     Document("Ok", "application/n-triples", <<Triple(NodeA, NodeP, Int255)>>),
     Document("Ok", "text/turtle",
              <<Triple(NodeA, NodeP, Int255), SyntaxError, Triple(NodeA, NodeP, Int256)>>),
     Document("Ok", "application/n-triples",
              <<Triple(NodeA, NodeP, Int255), Triple(NodeA, NodeP, Int256)>>)}

\* GraphFormat::from_media_type
SupportedMediaTypes == {"application/n-triples", "text/turtle", "application/rdf+xml"}

\* t.in_graph(to_graph_name)
in_graph(triple, graph_name) ==
    Quad(triple.subject, triple.predicate, triple.object, graph_name)

\* the errors of eval_load
HttpError == [kind |-> "Io", inner |-> [kind |-> "io::Error", error |-> "Http"]]
UnsupportedContentType == [kind |-> "Query", message |-> "Unsupported Content-Type"]
ParseError == [kind |-> "Parsing"]

Loaded(w) == [w |-> w, err |-> FALSE, error |-> NoError]
LoadFailed(w, error) == [w |-> w, err |-> TRUE, error |-> error]

\* the loop of eval_load over the triples of the parser: a syntax error and the
\* error of an insert end it, with the triples before them inserted.  failing is the
\* number of the insert whose storage call fails, 0 if none does.
\* a loop that gives up the triples it has inserted when it fails
RECURSIVE load_triples_from(_, _, _, _, _)
load_triples_from(before, w, body, to, failing) ==
    IF body = <<>> THEN Loaded(w)
    ELSE IF Head(body) = SyntaxError THEN LoadFailed(before, ParseError)
    ELSE IF failing = 1 THEN LoadFailed(before, StorageError)
    ELSE load_triples_from(before, StorageWriter_insert(w, in_graph(Head(body), to)).w,
                           Tail(body), to, failing - 1)

load_triples_or_none(w, body, to, failing) == load_triples_from(w, w, body, to, failing)

RECURSIVE load_triples(_, _, _, _)
load_triples(w, body, to, failing) ==
    IF body = <<>> THEN Loaded(w)
    ELSE IF Head(body) = SyntaxError THEN LoadFailed(w, ParseError)
    ELSE IF failing = 1 THEN LoadFailed(w, StorageError)
    ELSE load_triples(StorageWriter_insert(w, in_graph(Head(body), to)).w,
                      Tail(body), to, failing - 1)

eval_load(w, from, to, failing) ==
    IF from.get = "Err" THEN LoadFailed(w, HttpError)
    ELSE IF from.content_type \notin SupportedMediaTypes
    THEN LoadFailed(w, UnsupportedContentType)
    ELSE load_triples(w, from.body, to, failing)

\* the Load arm of eval: the error of eval_load is dropped when SILENT
load_or_silent(done, silent) ==
    IF done.err /\ silent THEN Loaded(done.w) ELSE done

MaxFailing == 2

SilentOps ==
    {Create(GraphG1, silent) : silent \in BOOLEAN}
    \cup {Clear(NamedTarget(GraphG1), silent) : silent \in BOOLEAN}
    \cup {Drop(NamedTarget(GraphG1), silent) : silent \in BOOLEAN}
    \cup {InsertData(QuadStar)}

LoadOps == {Load(silent, source, DefaultGraph) : silent \in BOOLEAN, source \in Documents}

\* history: the LOAD evaluated, and the number of the insert whose storage call failed
LoadEvaluated(update, failing) ==
    [op |-> "Load", silent |-> update.silent, source |-> update.source,
     destination |-> update.destination, failing |-> failing]

\* eval_all: the next operation of the request is a LOAD
Eval_load(t, update, failing) ==
    /\ tx[t].status = "active"
    /\ tx[t].nops < MaxOps
    /\ tx' = [tx EXCEPT ![t] =
                CHOOSE only \in
                    {IF res.err
                     THEN [res.w EXCEPT !.status = "failed", !.step = "eval",
                                        !.nops = @ + 1,
                                        !.lastOp = LoadEvaluated(update, failing),
                                        !.lastResult = "Err", !.changed = FALSE,
                                        !.error = res.error]
                     ELSE [res.w EXCEPT !.step = "eval", !.nops = @ + 1,
                                        !.lastOp = LoadEvaluated(update, failing),
                                        !.lastResult = "Ok",
                                        !.changed = (res.w # tx[t])] :
                        res \in {load_or_silent(eval_load(tx[t], update.source,
                                                          update.destination, failing),
                                                update.silent)}} : TRUE]
    /\ idem' = IdemNone
    /\ UNCHANGED <<db, everCreated, liveGraphs, rd, codec, ev>>

SilentNext ==
    \/ \E t \in Txs : Begin(t)
    \/ \E t \in Txs, update \in SilentOps : Eval(t, update)
    \/ \E t \in Txs, update \in SilentOps : Eval_io_error(t, update)
    \/ \E t \in Txs, update \in LoadOps, failing \in 0..MaxFailing :
            Eval_load(t, update, failing)
    \/ \E t \in Txs : Commit(t)
    \/ \E t \in Txs : Rollback(t)

SpecSilent == Init /\ [][SilentNext]_vars

(***************************************************************************)
(* The handles of a transaction.  Transaction and every Reader made by     *)
(* Transaction::reader share one InnerTransaction (Rc): it is dropped when *)
(* the Transaction (consumed by commit and by rollback, or dropped) and    *)
(* all these readers are gone.  rd holds the handles: whether the          *)
(* Transaction is alive, the number of readers alive, how often            *)
(* rocksdb_transaction_commit and rocksdb_transaction_rollback were        *)
(* called, whether rocksdb_transaction_destroy was, and the last read made *)
(* through a reader.                                                       *)
(***************************************************************************)
\* readers made from one transaction
MaxReaders == 2

NotRead == [read |-> FALSE]

HandleOps ==
    {InsertData(QuadD255), InsertData(QuadStar), DeleteData(QuadD255),
     Clear(NamedTarget(GraphG2), FALSE)}

\* the calls made through a reader
ReadCalls ==
    {[fn |-> fn, cf |-> "dspo", key |-> write_quad("dspo", EncodeQuad(QuadD255))] :
        fn \in {"get", "contains_key"}}
    \cup {[fn |-> "get", cf |-> "spog", key |-> write_quad("spog", EncodeQuad(QuadStar))],
          [fn |-> "scan_prefix", cf |-> "dspo", key |-> <<>>],
          [fn |-> "scan_prefix", cf |-> "gspo",
           key |-> write_prefix(<<EncodeTerm(GraphG1)>>)]}

\* the call made through reader r of transaction w
Reader_call(r, w, call) ==
    CASE call.fn = "get" -> Reader_get(r, w, call.cf, call.key)
      [] call.fn = "contains_key" -> Reader_contains_key(r, w, call.cf, call.key)
      [] call.fn = "scan_prefix" -> Reader_scan_prefix(r, w, call.cf, call.key)

\* Drop for InnerTransaction that rolls back whether the transaction ended or not
InnerTransaction_drop_always(w) == [rolled |-> TRUE, done |-> Transaction_rollback(w)]

\* Drop for InnerTransaction: rocksdb_transaction_rollback unless is_ended is set,
\* then rocksdb_transaction_destroy
InnerTransaction_drop(w) ==
    IF ~w.is_ended
    THEN [rolled |-> TRUE, done |-> Transaction_rollback(w)]
    ELSE [rolled |-> FALSE, done |-> [db |-> db, w |-> w]]

\* a handle was given up and h are the handles left: the InnerTransaction of t is
\* dropped with the last of them.  w is the transaction and state the database
\* before the drop; a rollback leaves the database as it is.
Released(t, w, h, state) ==
    /\ db' = state
    /\ IF h.transaction \/ h.readers > 0
       THEN /\ rd' = h
            /\ tx' = [tx EXCEPT ![t] = w]
       ELSE /\ rd' = [h EXCEPT !.destroyed = TRUE,
                               !.rollbacks = @ + (IF InnerTransaction_drop(w).rolled
                                                  THEN 1 ELSE 0)]
            /\ tx' = [tx EXCEPT ![t] = InnerTransaction_drop(w).done.w]

\* Db::transaction
Handles_transaction(t) ==
    /\ rd.status = "closed"
    /\ tx[t].status \in {"idle", "ended"}
    /\ tx' = [tx EXCEPT ![t] = Db_transaction]
    /\ rd' = [status |-> "handles", t |-> t, transaction |-> TRUE, readers |-> 0,
              cloned |-> 0, reader |-> Transaction_reader(Db_transaction),
              commits |-> 0, rollbacks |-> 0, destroyed |-> FALSE, base |-> db,
              got |-> NotRead]
    /\ UNCHANGED <<db, everCreated, liveGraphs, idem, codec, ev>>

\* Transaction::reader: one more handle on the InnerTransaction
Handles_reader(t) ==
    /\ rd.status = "handles" /\ rd.t = t
    /\ rd.transaction
    /\ rd.cloned < MaxReaders
    /\ rd' = [rd EXCEPT !.readers = @ + 1, !.cloned = @ + 1,
                        !.reader = Transaction_reader(tx[t])]
    /\ UNCHANGED <<db, tx, everCreated, liveGraphs, idem, codec, ev>>

\* the writes of the transaction
Handles_eval(t, update) ==
    /\ rd.status = "handles" /\ rd.t = t
    /\ rd.transaction
    /\ Eval(t, update)

\* Reader::get, contains_key and scan_prefix through a reader of the transaction
Handles_read(t, call) ==
    /\ rd.status = "handles" /\ rd.t = t
    /\ rd.readers > 0
    /\ rd' = [rd EXCEPT !.got = [read |-> TRUE, call |-> call, ended |-> tx[t].is_ended,
                                 outcome |-> tx[t].outcome,
                                 result |-> Reader_call(rd.reader, tx[t], call)]]
    /\ UNCHANGED <<db, tx, everCreated, liveGraphs, idem, codec, ev>>

\* Transaction::commit(self): is_ended is set, rocksdb_transaction_commit is called,
\* and the Transaction, consumed, is dropped
Handles_commit(t) ==
    /\ rd.status = "handles" /\ rd.t = t
    /\ rd.transaction
    /\ tx[t].status = "active"
    /\ \E done \in {Transaction_commit(tx[t])} :
        Released(t, done.w, [rd EXCEPT !.transaction = FALSE, !.commits = @ + 1], done.db)
    /\ liveGraphs' = tx[t].live
    /\ everCreated' = tx[t].created
    /\ UNCHANGED <<idem, codec, ev>>

\* Transaction::rollback(self): is_ended is set, rocksdb_transaction_rollback is
\* called, and the Transaction, consumed, is dropped
Handles_rollback(t) ==
    /\ rd.status = "handles" /\ rd.t = t
    /\ rd.transaction
    /\ tx[t].status \in {"active", "failed"}
    /\ \E done \in {Transaction_rollback(tx[t])} :
        Released(t, done.w, [rd EXCEPT !.transaction = FALSE, !.rollbacks = @ + 1], done.db)
    /\ idem' = IdemNone
    /\ UNCHANGED <<everCreated, liveGraphs, codec, ev>>

\* the Transaction is dropped without commit and without rollback
Handles_drop_transaction(t) ==
    /\ rd.status = "handles" /\ rd.t = t
    /\ rd.transaction
    /\ Released(t, tx[t], [rd EXCEPT !.transaction = FALSE], db)
    /\ idem' = IdemNone
    /\ UNCHANGED <<everCreated, liveGraphs, codec, ev>>

\* a reader of the transaction is dropped
Handles_drop_reader(t) ==
    /\ rd.status = "handles" /\ rd.t = t
    /\ rd.readers > 0
    /\ Released(t, tx[t], [rd EXCEPT !.readers = @ - 1], db)
    /\ idem' = IdemNone
    /\ UNCHANGED <<everCreated, liveGraphs, codec, ev>>

\* nothing is left of the transaction: the next one can begin
Handles_gone ==
    /\ rd.status = "handles"
    /\ rd.destroyed
    /\ rd' = ClosedReader
    /\ UNCHANGED <<db, tx, everCreated, liveGraphs, idem, codec, ev>>

HandlesNext ==
    \/ \E t \in Txs : Handles_transaction(t)
    \/ \E t \in Txs : Handles_reader(t)
    \/ \E t \in Txs, update \in HandleOps : Handles_eval(t, update)
    \/ \E t \in Txs, call \in ReadCalls : Handles_read(t, call)
    \/ \E t \in Txs : Handles_commit(t)
    \/ \E t \in Txs : Handles_rollback(t)
    \/ \E t \in Txs : Handles_drop_transaction(t)
    \/ \E t \in Txs : Handles_drop_reader(t)
    \/ Handles_gone

SpecHandles == Init /\ [][HandlesNext]_vars

(***************************************************************************)
(* Reader::scan_prefix over the keys of one column family: the iterator    *)
(* from its seek to its upper bound.                                       *)
(***************************************************************************)
MaxKeys == 3
MaxKeyLen == 2

\* the bytes of the keys and of the prefixes: the lowest, the next one and u8::MAX
ScanBytes == {0, 1, ByteMax}

ScanKeyValues == UNION {[1..n -> ScanBytes] : n \in 1..MaxKeyLen}

ScanPrefixes == {<<>>} \cup ScanKeyValues

\* no iterator is open
NoIter == [open |-> FALSE]

\* the content of the column family
ScanContent == IF rd.status = "scan" THEN rd.keys ELSE {}

\* rocksdb_iter_valid: the iterator is on a key below iterate_upper_bound
iter_valid(current, ub) ==
    /\ current.some
    /\ ub.found => BytesLess(current.term, ub.bound)

\* the Iter of scan_prefix: the upper bound, the seek and is_currently_valid
Iter(keys, prefix, ub, current) ==
    [open |-> TRUE, keys |-> keys, prefix |-> prefix, upper_bound |-> ub,
     current |-> current, is_currently_valid |-> iter_valid(current, ub)]

\* a key is put into the column family
Scan_put(key) ==
    /\ rd.status = "closed" \/ (rd.status = "scan" /\ ~rd.iter.open)
    /\ key \notin ScanContent
    /\ Cardinality(ScanContent) < MaxKeys
    /\ rd' = [status |-> "scan", keys |-> ScanContent \cup {key}, iter |-> NoIter,
              yielded |-> <<>>]
    /\ UNCHANGED <<db, tx, everCreated, liveGraphs, idem, codec, ev>>

\* Reader::scan_prefix: the iterator with its upper bound, after its seek
Scan_scan_prefix(prefix) ==
    /\ rd.status = "closed" \/ (rd.status = "scan" /\ ~rd.iter.open)
    /\ rd' = [status |-> "scan", keys |-> ScanContent,
              iter |-> Iter(ScanContent, prefix, upper_bound(prefix),
                            iter_seek(ScanContent, prefix)),
              yielded |-> <<>>]
    /\ UNCHANGED <<db, tx, everCreated, liveGraphs, idem, codec, ev>>

\* one turn of while iter.is_valid() { iter.key(); iter.next() }
Scan_next ==
    /\ rd.status = "scan"
    /\ rd.iter.open
    /\ rd.iter.is_currently_valid
    /\ rd' = [rd EXCEPT !.yielded = Append(@, rd.iter.current.term),
                        !.iter = Iter(rd.iter.keys, rd.iter.prefix, rd.iter.upper_bound,
                                      iter_next(rd.iter.keys, rd.iter.current.term))]
    /\ UNCHANGED <<db, tx, everCreated, liveGraphs, idem, codec, ev>>

\* Drop for Iter
Scan_drop ==
    /\ rd.status = "scan"
    /\ rd.iter.open
    /\ rd' = [rd EXCEPT !.iter = NoIter, !.yielded = <<>>]
    /\ UNCHANGED <<db, tx, everCreated, liveGraphs, idem, codec, ev>>

ScanNext ==
    \/ \E key \in ScanKeyValues : Scan_put(key)
    \/ \E prefix \in ScanPrefixes : Scan_scan_prefix(prefix)
    \/ Scan_next
    \/ Scan_drop

SpecScan == Init /\ [][ScanNext]_vars

(***************************************************************************)
(* Two transactions at once, each inserting and removing quads of the      *)
(* universe, which share strings.  The database is a RocksDB TransactionDB *)
(* and its transactions are begun with set_snapshot: get_for_update, put,  *)
(* delete and merge lock their key until the transaction ends, a call on a *)
(* key another transaction holds ends with TimedOut, and a call on a key   *)
(* written since the snapshot of the transaction ends with Busy.  A        *)
(* transaction whose call failed is rolled back.                           *)
(***************************************************************************)
Writers == {"w1", "w2"}
MaxWrites == 2
MaxTransactions == 3

\* a quad of the default graph and one of a named graph, with a quoted triple; they
\* share the strings of two named nodes
WriterQuads == {QuadD255, QuadStar}

WriterOps == {PyAdd(q) : q \in WriterQuads} \cup {PyRemove(q) : q \in WriterQuads}

NoWriters ==
    [status |-> "writers", w |-> [i \in Writers |-> IdleTx],
     locks |-> [i \in Writers |-> {}], stale |-> [i \in Writers |-> {}],
     writes |-> [i \in Writers |-> <<>>], error |-> [i \in Writers |-> "none"],
     begun |-> 0]

WriterState == IF rd.status = "writers" THEN rd ELSE NoWriters

\* StorageWriter::insert or StorageWriter::remove in transaction w
writer_apply(w, op) ==
    IF op.op = "add" THEN StorageWriter_insert(w, op.quad)
    ELSE StorageWriter_remove(w, op.quad)

\* the key get_for_update looks a quad up with
index_key(quad) ==
    IF quad.graph_name.kind = "DefaultGraph"
    THEN <<"dspo", write_quad("dspo", EncodeQuad(quad))>>
    ELSE <<"spog", write_quad("spog", EncodeQuad(quad))>>

\* the keys a transaction has written
written_keys(w) == w.puts \cup w.dels \cup {<<"id2str", k>> : k \in DOMAIN w.merges}

\* the keys a call of the writer locks: the key of the quad, the key of its graph in
\* GRAPHS when the quad is inserted, and every key written
locked_keys(op, done) ==
    {index_key(op.quad)}
    \cup (IF op.op = "add" /\ done.result /\ op.quad.graph_name.kind # "DefaultGraph"
          THEN {<<"graphs", write_term(EncodeTerm(op.quad.graph_name))>>}
          ELSE {})
    \cup written_keys(done.w)

\* a transaction manager that locks and validates nothing
try_lock_free(keys, held, stale) == "Ok"

\* the locks of a call: held by another transaction, written since the snapshot, or
\* taken
try_lock(keys, held, stale) ==
    IF keys \cap held # {} THEN "TimedOut"
    ELSE IF keys \cap stale # {} THEN "Busy"
    ELSE "Ok"

held_by_others(st, i) == UNION {st.locks[j] : j \in Writers \ {i}}

\* the writer after a call that took the locks, or that failed to
writer_called(st, i, op, done, keys, got) ==
    IF got = "Ok"
    THEN [st EXCEPT !.w[i] = done.w, !.locks[i] = @ \cup keys,
                    !.writes[i] = Append(@, op)]
    ELSE [st EXCEPT !.w[i].status = "failed", !.error[i] = got,
                    !.writes[i] = Append(@, op)]

\* Db::transaction for writer i
Writers_transaction(i) ==
    /\ rd.status \in {"closed", "writers"}
    /\ WriterState.w[i].status \in {"idle", "ended"}
    /\ WriterState.begun < MaxTransactions
    /\ rd' = [WriterState EXCEPT !.w[i] = Db_transaction, !.locks[i] = {},
                                 !.stale[i] = {}, !.writes[i] = <<>>,
                                 !.error[i] = "none", !.begun = @ + 1]
    /\ UNCHANGED <<db, tx, everCreated, liveGraphs, idem, codec, ev>>

\* StorageWriter::insert or remove by writer i
Writers_write(i, op) ==
    /\ rd.status = "writers"
    /\ rd.w[i].status = "active"
    /\ Len(rd.writes[i]) < MaxWrites
    /\ \E done \in {writer_apply(rd.w[i], op)} :
         \E keys \in {locked_keys(op, done)} :
           rd' = writer_called(rd, i, op, done, keys,
                               try_lock(keys, held_by_others(rd, i), rd.stale[i]))
    /\ UNCHANGED <<db, tx, everCreated, liveGraphs, idem, codec, ev>>

\* the writers after the commit of writer i: its keys are written since the snapshots
\* of the transactions that run
writer_committed(st, i, done, keys) ==
    [st EXCEPT !.w[i] = done.w, !.locks[i] = {},
               !.stale = [j \in Writers |->
                            IF j # i /\ st.w[j].status \in {"active", "failed"}
                            THEN @[j] \cup keys ELSE @[j]]]

\* Transaction::commit by writer i
Writers_commit(i) ==
    /\ rd.status = "writers"
    /\ rd.w[i].status = "active"
    /\ \E done \in {Transaction_commit(rd.w[i])} :
         /\ db' = done.db
         /\ rd' = writer_committed(rd, i, done, written_keys(rd.w[i]))
    /\ UNCHANGED <<tx, everCreated, liveGraphs, idem, codec, ev>>

\* Transaction::rollback by writer i, also after a call that failed
Writers_rollback(i) ==
    /\ rd.status = "writers"
    /\ rd.w[i].status \in {"active", "failed"}
    /\ rd' = [rd EXCEPT !.w[i] = Transaction_rollback(rd.w[i]).w, !.locks[i] = {}]
    /\ db' = Transaction_rollback(rd.w[i]).db
    /\ UNCHANGED <<tx, everCreated, liveGraphs, idem, codec, ev>>

WritersNext ==
    \/ \E i \in Writers : Writers_transaction(i)
    \/ \E i \in Writers, op \in WriterOps : Writers_write(i, op)
    \/ \E i \in Writers : Writers_commit(i)
    \/ \E i \in Writers : Writers_rollback(i)

SpecWriters == Init /\ [][WritersNext]_vars

(***************************************************************************)
(* The merge operator and the compaction filter of ID2STR on one key: the  *)
(* operands of the key are merged in groups by partial merges, then with   *)
(* the existing value by the full merge, and the value is filtered.        *)
(***************************************************************************)
MaxOperands == 3

\* the operand of insert_str, the operand of remove_str, and the values merges leave
MergeOperands == {[count |-> 1, str |-> "s"], [count |-> -1, str |-> ""]}

MergeExisting ==
    {<<>>, <<[count |-> 1, str |-> "s"]>>, <<[count |-> 2, str |-> "s"]>>,
     <<[count |-> 0, str |-> "s"]>>}

MergeOperandLists == UNION {[1..n -> MergeOperands] : n \in 1..MaxOperands}

\* the operands with those from first to last replaced by their partial merge
partially_merged(operands, first, last) ==
    SubSeq(operands, 1, first - 1)
    \o <<merge_partial(SubSeq(operands, first, last))>>
    \o SubSeq(operands, last + 1, Len(operands))

\* operands are written for a key that has the value existing, or none
Merge_operands(existing, operands) ==
    /\ rd.status = "closed"
    /\ rd' = [status |-> "merge", stage |-> "operands", existing |-> existing,
              operands |-> operands, pending |-> operands]
    /\ UNCHANGED <<db, tx, everCreated, liveGraphs, idem, codec, ev>>

\* merge_partial on some operands that follow each other
Merge_partial(first, last) ==
    /\ rd.status = "merge" /\ rd.stage = "operands"
    /\ first < last /\ last <= Len(rd.pending)
    /\ rd' = [rd EXCEPT !.pending = partially_merged(@, first, last)]
    /\ UNCHANGED <<db, tx, everCreated, liveGraphs, idem, codec, ev>>

\* merge_full on the existing value and what is left of the operands
Merge_full ==
    /\ rd.status = "merge" /\ rd.stage = "operands"
    /\ rd' = [status |-> "merge", stage |-> "merged", existing |-> rd.existing,
              operands |-> rd.operands, pending |-> rd.pending,
              value |-> merge_full(rd.existing, rd.pending)]
    /\ UNCHANGED <<db, tx, everCreated, liveGraphs, idem, codec, ev>>

\* compactionfilter_filter on the merged value
Merge_filter ==
    /\ rd.status = "merge" /\ rd.stage = "merged"
    /\ rd' = [status |-> "merge", stage |-> "filtered", existing |-> rd.existing,
              operands |-> rd.operands, pending |-> rd.pending, value |-> rd.value,
              action |-> id2str_filter(rd.value)]
    /\ UNCHANGED <<db, tx, everCreated, liveGraphs, idem, codec, ev>>

MergeNext ==
    \/ \E existing \in MergeExisting, operands \in MergeOperandLists :
            Merge_operands(existing, operands)
    \/ \E first, last \in 1..MaxOperands : Merge_partial(first, last)
    \/ Merge_full
    \/ Merge_filter

SpecMerge == Init /\ [][MergeNext]_vars

(***************************************************************************)
(* Ownership of the RocksDB handles.  The DbHandler is behind an Arc held  *)
(* by the Db, by Raw readers, by the InnerSnapshot and by the              *)
(* InnerTransaction; the InnerSnapshot and the InnerTransaction are behind *)
(* an Rc held by the readers made from them (and by the Transaction);      *)
(* every Reader, Transaction and Iter has read options of its own; an Iter *)
(* holds the buffer of its upper bound and a clone of its Reader.          *)
(***************************************************************************)
MaxIters == 2
MaxOwners == 3

ReaderKinds == {"Raw", "Snapshot", "Transaction"}

\* the handles after Db::new: one Db holds the DbHandler
OpenedHandles ==
    [handler |-> 1, closed |-> FALSE,
     snapshot |-> 0, snapshot_made |-> FALSE, released |-> FALSE,
     inner |-> 0, inner_made |-> FALSE, is_ended |-> FALSE, rolled_back |-> FALSE,
     destroyed |-> FALSE,
     options |-> 0, buffers |-> 0]

\* Arc<DbHandler>::clone
DbHandler_clone(h) == [h EXCEPT !.handler = @ + 1]

\* an Arc<DbHandler> is dropped; Drop for DbHandler when it was the last one
DbHandler_drop(h) ==
    IF h.handler = 1 THEN [h EXCEPT !.handler = 0, !.closed = TRUE]
    ELSE [h EXCEPT !.handler = @ - 1]

\* an Rc<InnerSnapshot> is dropped; Drop for InnerSnapshot when it was the last one,
\* and then its field db
InnerSnapshot_drop(h) ==
    IF h.snapshot = 1 THEN DbHandler_drop([h EXCEPT !.snapshot = 0, !.released = TRUE])
    ELSE [h EXCEPT !.snapshot = @ - 1]

\* an Rc<InnerTransaction> is dropped; Drop for InnerTransaction when it was the last
\* one, and then its field _db
InnerTransaction_release(h) ==
    IF h.inner = 1
    THEN DbHandler_drop([h EXCEPT !.inner = 0, !.destroyed = TRUE,
                                  !.rolled_back = @ \/ ~h.is_ended])
    ELSE [h EXCEPT !.inner = @ - 1]

\* InnerReader::clone
InnerReader_clone(h, kind) ==
    CASE kind = "Raw" -> DbHandler_clone(h)
      [] kind = "Snapshot" -> [h EXCEPT !.snapshot = @ + 1]
      [] kind = "Transaction" -> [h EXCEPT !.inner = @ + 1]

\* an InnerReader is dropped
InnerReader_drop(h, kind) ==
    CASE kind = "Raw" -> DbHandler_drop(h)
      [] kind = "Snapshot" -> InnerSnapshot_drop(h)
      [] kind = "Transaction" -> InnerTransaction_release(h)

\* rocksdb_readoptions_create_copy and rocksdb_readoptions_destroy
readoptions_create_copy(h) == [h EXCEPT !.options = @ + 1]
readoptions_destroy(h) == [h EXCEPT !.options = @ - 1]

\* Reader::clone: the inner cloned, read options copied
Reader_clone(h, kind) == readoptions_create_copy(InnerReader_clone(h, kind))

\* Drop for Reader, then its field inner
Reader_release(h, kind) == InnerReader_drop(readoptions_destroy(h), kind)

\* an Iter that borrows its Reader
Iter_of_borrowed(kind, bounded) == [kind |-> kind, upper_bound |-> bounded, reader |-> FALSE]

\* the Iter of scan_prefix: _upper_bound and _reader: self.clone()
Iter_of(kind, bounded) == [kind |-> kind, upper_bound |-> bounded, reader |-> TRUE]

\* the handles after scan_prefix made the Iter it: the buffer of the upper bound, a
\* copy of the read options, and the clone of the Reader
iter_made(h, it) ==
    [(IF it.reader THEN Reader_clone(readoptions_create_copy(h), it.kind)
      ELSE readoptions_create_copy(h))
     EXCEPT !.buffers = @ + (IF it.upper_bound THEN 1 ELSE 0)]

\* Drop for Iter, then its fields _upper_bound and _reader
iter_dropped(h, it) ==
    [(IF it.reader THEN Reader_release(readoptions_destroy(h), it.kind)
      ELSE readoptions_destroy(h))
     EXCEPT !.buffers = @ - (IF it.upper_bound THEN 1 ELSE 0)]

\* the sequence without its i-th element
without(seq, i) == SubSeq(seq, 1, i - 1) \o SubSeq(seq, i + 1, Len(seq))

Owned(h, db_live, transaction, readers, iters) ==
    [status |-> "owners", h |-> h, db |-> db_live, transaction |-> transaction,
     readers |-> readers, iters |-> iters]

NoReaders == [kind \in ReaderKinds |-> 0]

\* the values that are not dropped yet
owners(o) ==
    o.readers["Raw"] + o.readers["Snapshot"] + o.readers["Transaction"] + Len(o.iters)

\* Db::new
Owners_new ==
    /\ rd.status = "closed"
    /\ rd' = Owned(OpenedHandles, TRUE, FALSE, NoReaders, <<>>)
    /\ UNCHANGED <<db, tx, everCreated, liveGraphs, idem, codec, ev>>

\* Db::reader
Owners_reader ==
    /\ rd.status = "owners" /\ rd.db
    /\ owners(rd) < MaxOwners
    /\ rd' = [rd EXCEPT !.h = readoptions_create_copy(DbHandler_clone(@)),
                        !.readers["Raw"] = @ + 1]
    /\ UNCHANGED <<db, tx, everCreated, liveGraphs, idem, codec, ev>>

\* Db::snapshot
Owners_snapshot ==
    /\ rd.status = "owners" /\ rd.db
    /\ ~rd.h.snapshot_made
    /\ owners(rd) < MaxOwners
    /\ rd' = [rd EXCEPT !.h = readoptions_create_copy(
                                  [DbHandler_clone(@) EXCEPT !.snapshot = 1,
                                                             !.snapshot_made = TRUE]),
                        !.readers["Snapshot"] = @ + 1]
    /\ UNCHANGED <<db, tx, everCreated, liveGraphs, idem, codec, ev>>

\* Db::transaction
Owners_transaction ==
    /\ rd.status = "owners" /\ rd.db
    /\ ~rd.h.inner_made
    /\ rd' = [rd EXCEPT !.h = readoptions_create_copy(
                                  [DbHandler_clone(@) EXCEPT !.inner = 1,
                                                             !.inner_made = TRUE]),
                        !.transaction = TRUE]
    /\ UNCHANGED <<db, tx, everCreated, liveGraphs, idem, codec, ev>>

\* Transaction::reader
Owners_transaction_reader ==
    /\ rd.status = "owners" /\ rd.transaction
    /\ owners(rd) < MaxOwners
    /\ rd' = [rd EXCEPT !.h = Reader_clone(@, "Transaction"),
                        !.readers["Transaction"] = @ + 1]
    /\ UNCHANGED <<db, tx, everCreated, liveGraphs, idem, codec, ev>>

\* Reader::clone
Owners_reader_clone(kind) ==
    /\ rd.status = "owners" /\ rd.readers[kind] > 0
    /\ owners(rd) < MaxOwners
    /\ rd' = [rd EXCEPT !.h = Reader_clone(@, kind), !.readers[kind] = @ + 1]
    /\ UNCHANGED <<db, tx, everCreated, liveGraphs, idem, codec, ev>>

\* Reader::scan_prefix, for a prefix that has an upper bound or has none; the reader of
\* a transaction that has ended returns an error
Owners_scan_prefix(kind, bounded) ==
    /\ rd.status = "owners" /\ rd.readers[kind] > 0
    /\ ~(kind = "Transaction" /\ rd.h.is_ended)
    /\ Len(rd.iters) < MaxIters
    /\ owners(rd) < MaxOwners
    /\ rd' = [rd EXCEPT !.h = iter_made(@, Iter_of(kind, bounded)),
                        !.iters = Append(@, Iter_of(kind, bounded))]
    /\ UNCHANGED <<db, tx, everCreated, liveGraphs, idem, codec, ev>>

\* Transaction::commit(self) and Transaction::rollback(self): is_ended is set and the
\* Transaction is dropped
Owners_end_transaction ==
    /\ rd.status = "owners" /\ rd.transaction
    /\ rd' = [rd EXCEPT !.h = InnerTransaction_release(
                                  readoptions_destroy([@ EXCEPT !.is_ended = TRUE])),
                        !.transaction = FALSE]
    /\ UNCHANGED <<db, tx, everCreated, liveGraphs, idem, codec, ev>>

\* the Transaction is dropped
Owners_drop_transaction ==
    /\ rd.status = "owners" /\ rd.transaction
    /\ rd' = [rd EXCEPT !.h = InnerTransaction_release(readoptions_destroy(@)),
                        !.transaction = FALSE]
    /\ UNCHANGED <<db, tx, everCreated, liveGraphs, idem, codec, ev>>

\* the Db is dropped
Owners_drop_db ==
    /\ rd.status = "owners" /\ rd.db
    /\ rd' = [rd EXCEPT !.h = DbHandler_drop(@), !.db = FALSE]
    /\ UNCHANGED <<db, tx, everCreated, liveGraphs, idem, codec, ev>>

\* a Reader is dropped
Owners_drop_reader(kind) ==
    /\ rd.status = "owners" /\ rd.readers[kind] > 0
    /\ rd' = [rd EXCEPT !.h = Reader_release(@, kind), !.readers[kind] = @ - 1]
    /\ UNCHANGED <<db, tx, everCreated, liveGraphs, idem, codec, ev>>

\* an Iter is dropped
Owners_drop_iter(i) ==
    /\ rd.status = "owners" /\ i <= Len(rd.iters)
    /\ rd' = [rd EXCEPT !.h = iter_dropped(@, rd.iters[i]), !.iters = without(@, i)]
    /\ UNCHANGED <<db, tx, everCreated, liveGraphs, idem, codec, ev>>

OwnersNext ==
    \/ Owners_new
    \/ Owners_reader
    \/ Owners_snapshot
    \/ Owners_transaction
    \/ Owners_transaction_reader
    \/ \E kind \in ReaderKinds : Owners_reader_clone(kind)
    \/ \E kind \in ReaderKinds, bounded \in BOOLEAN : Owners_scan_prefix(kind, bounded)
    \/ Owners_end_transaction
    \/ Owners_drop_transaction
    \/ Owners_drop_db
    \/ \E kind \in ReaderKinds : Owners_drop_reader(kind)
    \/ \E i \in 1..MaxIters : Owners_drop_iter(i)

SpecOwners == Init /\ [][OwnersNext]_vars

(***************************************************************************)
(* A term through the encoder and the decoder: the term is encoded         *)
(* (From<TermRef> for EncodedTerm), its strings are handed to the string   *)
(* store (TermEncoder::insert_term), and the encoded term is decoded       *)
(* (Decoder::decode_term) through a reader of the store, with the strings  *)
(* in the store or without them.                                           *)
(***************************************************************************)
SmallValue == "hello"
Malformed == "abc"

CodecLiterals ==
    {Literal(SmallValue, XsdString), Literal(BigValue, XsdString),
     LanguageTaggedLiteral(SmallValue, "en"), LanguageTaggedLiteral(BigValue, "en"),
     LanguageTaggedLiteral(SmallValue, BigValue), LanguageTaggedLiteral(BigValue, BigValue),
     Literal(SmallValue, "http://example.com/dt"), BigTyped,
     Int255, Literal("1", XsdInteger), Literal("01", XsdInteger),
     Literal(Malformed, XsdInteger), Literal(BigValue, XsdInteger),
     Literal("1", XsdByte),
     Literal("true", XsdBoolean), Literal("1", XsdBoolean), Literal("0", XsdBoolean)}

CodecNodes ==
    {NodeA, NumericalBlankNode(7), LabelledBlankNode("b1"), LabelledBlankNode(BigValue)}

CodecTerms ==
    CodecNodes \cup CodecLiterals
    \cup {Triple(NodeA, NodeP, o) : o \in {NodeA, Int255, BigTyped, Literal("01", XsdInteger)}}
    \cup {Triple(Triple(LabelledBlankNode(BigValue), NodeP, Literal(Malformed, XsdInteger)),
                  NodeP, LanguageTaggedLiteral(BigValue, "en"))}

\* what decode_subject makes of a decoded term: a literal is no subject
subject_only(decoded) ==
    IF decoded.err THEN decoded
    ELSE IF decoded.term.kind = "Literal" THEN DecoderError("Decoder")
    ELSE decoded

decode_subject(r, w, encoded) == subject_only(decode_term(r, w, encoded))

\* a decode_quad that takes no quoted triple as subject
decode_quad_of_nodes(subject, predicate, object, graph_name) ==
    IF subject.err THEN subject
    ELSE IF subject.term.kind = "Triple" THEN DecoderError("Decoder")
    ELSE IF predicate.err THEN predicate
    ELSE IF object.err THEN object
    ELSE IF graph_name.err THEN graph_name
    ELSE [err |-> FALSE,
          quad |-> Quad(subject.term, predicate.term, object.term, graph_name.term)]

\* Quad::new of the four positions decoded, or the first error
decode_quad_of(subject, predicate, object, graph_name) ==
    IF subject.err THEN subject
    ELSE IF predicate.err THEN predicate
    ELSE IF object.err THEN object
    ELSE IF graph_name.err THEN graph_name
    ELSE [err |-> FALSE,
          quad |-> Quad(subject.term, predicate.term, object.term, graph_name.term)]

\* the graph name of decode_quad: the default graph, or a term that is a named or
\* blank node
decode_graph_name(r, w, encoded) ==
    IF encoded = EncodedDefaultGraph THEN Decoded(DefaultGraph)
    ELSE IF decode_term(r, w, encoded).err THEN decode_term(r, w, encoded)
    ELSE IF decode_term(r, w, encoded).term.kind \in {"Literal", "Triple"}
    THEN DecoderError("Decoder")
    ELSE decode_term(r, w, encoded)

decode_quad(r, w, encoded) ==
    decode_quad_of(decode_subject(r, w, encoded.subject),
                   decode_named_node(r, w, encoded.predicate),
                   decode_term(r, w, encoded.object),
                   decode_graph_name(r, w, encoded.graph_name))

\* the caller hands a term over
Codec_input(term) ==
    /\ codec.stage = "none"
    /\ codec' = [stage |-> "input", term |-> term]
    /\ UNCHANGED <<db, tx, everCreated, liveGraphs, idem, rd, ev>>

\* From<TermRef> for EncodedTerm
Codec_encode ==
    /\ codec.stage = "input"
    /\ codec' = [stage |-> "encoded", term |-> codec.term,
                 encoded |-> EncodeTerm(codec.term), w |-> Db_transaction]
    /\ UNCHANGED <<db, tx, everCreated, liveGraphs, idem, rd, ev>>

\* TermEncoder::insert_term: the strings of the term go to the string store
Codec_insert_term ==
    /\ codec.stage = "encoded"
    /\ codec' = [codec EXCEPT !.stage = "stored",
                              !.w = insert_term(@, codec.term, codec.encoded)]
    /\ UNCHANGED <<db, tx, everCreated, liveGraphs, idem, rd, ev>>

\* Decoder::decode_term through the reader of the transaction; held tells whether
\* the strings of the term were in the store
Codec_decode ==
    /\ codec.stage \in {"encoded", "stored"}
    /\ codec' = [stage |-> "decoded", term |-> codec.term, encoded |-> codec.encoded,
                 held |-> (codec.stage = "stored"), w |-> codec.w,
                 result |-> decode_term(Transaction_reader(codec.w), codec.w,
                                        codec.encoded)]
    /\ UNCHANGED <<db, tx, everCreated, liveGraphs, idem, rd, ev>>

\* Decoder::decode_quad of the encoded quad through the reader of a transaction
\* that has inserted the quad (stored) or has not
Codec_decode_quad(quad, stored) ==
    /\ codec.stage = "none"
    /\ codec' = CHOOSE only \in
                    {[stage |-> "decoded_quad", quad |-> quad, encoded |-> EncodeQuad(quad),
                      held |-> stored, w |-> w,
                      result |-> decode_quad(Transaction_reader(w), w, EncodeQuad(quad))] :
                        w \in {IF stored THEN StorageWriter_insert(Db_transaction, quad).w
                               ELSE Db_transaction}} : TRUE
    /\ UNCHANGED <<db, tx, everCreated, liveGraphs, idem, rd, ev>>

CodecNext ==
    \/ \E term \in CodecTerms : Codec_input(term)
    \/ Codec_encode
    \/ Codec_insert_term
    \/ Codec_decode
    \/ \E quad \in QuadUniverse, stored \in BOOLEAN : Codec_decode_quad(quad, stored)

SpecCodec == Init /\ [][CodecNext]_vars



(***************************************************************************)
(* Properties.                                                             *)
(***************************************************************************)
NamedGraphOf(state) == {q.graph_name : q \in IndexQuads(state, "spog")}

\* the string hashes an encoded term refers to
RECURSIVE ReferencedHashes(_)
ReferencedHashes(e) ==
    CASE e.tag = "NamedNode" -> {e.iri_id}
      [] e.tag = "BigBlankNode" -> {e.id_id}
      [] e.tag = "BigStringLiteral" -> {e.value_id}
      [] e.tag = "SmallBigLangStringLiteral" -> {e.language_id}
      [] e.tag = "BigSmallLangStringLiteral" -> {e.value_id}
      [] e.tag = "BigBigLangStringLiteral" -> {e.value_id, e.language_id}
      [] e.tag = "SmallTypedLiteral" -> {e.datatype_id}
      [] e.tag = "BigTypedLiteral" -> {e.value_id, e.datatype_id}
      [] e.tag = "Triple" ->
            ReferencedHashes(e.subject) \cup ReferencedHashes(e.predicate)
            \cup ReferencedHashes(e.object)
      [] OTHER -> {}

\* the encoded terms stored in a state: those of its quads and its graph names
StoredTerms(state) ==
    UNION {{q.subject, q.predicate, q.object, q.graph_name} : q \in StoredQuads(state)}
    \cup StoredGraphs(state)

\* the reader the store reads through for writer t: the reader of its transaction
\* while it runs, a snapshot otherwise
ViewReader(t) ==
    IF tx[t].status \in {"active", "failed"} THEN Transaction_reader(tx[t]) ELSE Db_snapshot

\* C1: a transaction that aborts leaves no index, no graph entry and no string
\* reference count changed: after the rollback the database shows what it showed
\* when the transaction began.
C1_AbortLeavesNoChange ==
    [][\A t \in Txs :
        (tx[t].status = "failed" /\ tx'[t].outcome = "rolled_back")
        => /\ db' = db
           /\ Visible(db') = Visible(tx[t].read_options.snapshot.state)]_vars

\* a transaction with pending writes was rolled back over a database that holds quads
C1_Witness ==
    \E t \in Txs :
        /\ tx[t].outcome = "rolled_back"
        /\ tx[t].wrote
        /\ StoredQuads(db) # {}

\* C2: a snapshot reader sees the state at the time the snapshot was made, whatever
\* the writer commits afterwards: every quad a lazily consumed iterator yields, the
\* whole of what it has yielded when it ends, and every point read are as in that
\* state.
C2_SnapshotIsolation ==
    LET at == [inner |-> "Snapshot", options |-> [snapshot |-> SnapshotOf(rd.taken)]]
    IN  /\ rd.status \in {"open", "done"}
            => LET expected == PatternQuads(at, IdleTx, rd.pattern).quads
               IN  /\ rd.yielded \subseteq expected
                   /\ rd.status = "done" => rd.yielded = expected
        /\ (rd.status = "snapshot" /\ rd.seen.read)
            => rd.seen.value = (EncodeQuad(rd.seen.quad) \in StoredQuads(rd.taken))

\* an iterator ran to its end and yielded a quad the writer has removed since the
\* snapshot was made
C2_Witness ==
    /\ rd.status = "done"
    /\ \E q \in rd.yielded : q \notin StoredQuads(db)

\* C3: in every committed state the indexes hold the same set of quads: the three
\* default-graph indexes the quads of the default graph, the six others the quads of
\* the named graphs, each under the key of its own order.
C3_IndexesAgree ==
    LET stored == StoredQuads(db)
        OfKind(cf) == {q \in stored :
                        (cf \in DefaultCfs) = (q.graph_name = EncodedDefaultGraph)}
    IN  \A cf \in QuadCfs : db.cfs[cf] = {write_quad(cf, q) : q \in OfKind(cf)}

\* quads of both kinds are stored after another quad was removed
C3_Witness ==
    /\ EncodeQuad(QuadD256) \in StoredQuads(db)
    /\ EncodeQuad(QuadStar) \in StoredQuads(db)
    /\ \E t \in Txs : IsRemove(tx[t].lastOp) /\ tx[t].changed /\ tx[t].status = "ended"

\* C4: every string hash referred to by a term of a stored quad or by a graph name of
\* GRAPHS has a reference count of at least one in ID2STR, with the string it is the
\* hash of; in the committed state and in what a running transaction sees.
C4_ReferencedStringsCounted ==
    \A t \in Txs : \A state \in {db, CurrentView(t)} :
        \A e \in StoredTerms(state) : \A id \in ReferencedHashes(e) :
            /\ RefCount(state, id.hash) >= 1
            /\ get_str([inner |-> "Snapshot", options |-> [snapshot |-> SnapshotOf(state)]],
                       IdleTx, id).found
            /\ StrHash(state.id2str[id.hash].str) = id

\* a quad with a quoted triple and a long typed literal is stored, one string is
\* counted more than once and another was released
C4_Witness ==
    /\ EncodeQuad(QuadStar) \in StoredQuads(db)
    /\ \E h \in AllHashes : RefCount(db, h) >= 3
    /\ \E h \in DOMAIN db.id2str : db.id2str[h].count = 0

\* C5: after insert(q) succeeded, contains(q) is true: in the transaction that
\* inserted q and, once it has committed, in the store.
C5_InsertThenContains ==
    \A t \in Txs :
        (/\ IsInsert(tx[t].lastOp)
         /\ tx[t].lastResult = "Ok"
         /\ tx[t].step \in {"eval", "api", "committed"})
        => contains(ViewReader(t), tx[t], EncodeQuad(tx[t].lastOp.quad)).value

\* an insert of a quad that was not there has committed
C5_Witness ==
    \E t \in Txs :
        /\ tx[t].lastOp = InsertData(QuadStar)
        /\ tx[t].changed
        /\ tx[t].step = "committed"

NonNegative(id2str) == \A h \in DOMAIN id2str : id2str[h].count >= 0

NoNegativeCount ==
    /\ NonNegative(db.id2str)
    /\ \A t \in Txs :
        tx[t].status \in {"active", "failed"}
        => NonNegative(OverlayId2str(tx[t], ReadBase(tx[t].read_options)))

\* the step is a remove of quad by writer t
RemoveStep(t, quad) ==
    /\ IsRemove(tx'[t].lastOp)
    /\ tx'[t].lastOp.quad = quad
    /\ \/ tx[t].status = "active" /\ tx'[t].step = "eval" /\ tx'[t].nops = tx[t].nops + 1
       \/ tx[t].status \in {"idle", "ended"} /\ tx'[t].step = "api"

\* C7: remove is idempotent: removing a quad that is not stored changes nothing the
\* store shows, and no reference count goes below zero.
C7_RemoveIdempotent ==
    [][/\ \A t \in Txs : \A quad \in QuadUniverse :
            (RemoveStep(t, quad) /\ EncodeQuad(quad) \notin StoredQuads(CurrentView(t)))
            => Visible(CurrentView(t))' = Visible(CurrentView(t))
       /\ NoNegativeCount']_vars

\* a remove found nothing to remove, the strings of its quad having been released
\* before (their count is zero)
C7_Witness ==
    \E t \in Txs :
        /\ IsRemove(tx[t].lastOp)
        /\ tx[t].step \in {"eval", "api"}
        /\ ~tx[t].changed
        /\ \E h \in DOMAIN CurrentView(t).id2str : CurrentView(t).id2str[h].count = 0

(***************************************************************************)
(* Patterns: each position is bound to a term of the universe or free.     *)
(***************************************************************************)
Options(terms) == {None} \cup {Some(e) : e \in terms}

PatternUniverse ==
    {Pattern(s, p, o, g) :
        s \in Options({q.subject : q \in EncodedQuadUniverse}),
        p \in Options({q.predicate : q \in EncodedQuadUniverse}),
        o \in Options({q.object : q \in EncodedQuadUniverse}),
        g \in Options({EncodeTerm(n) : n \in GraphUniverse})}

Matches(q, pattern) ==
    /\ pattern.subject.some => q.subject = pattern.subject.term
    /\ pattern.predicate.some => q.predicate = pattern.predicate.term
    /\ pattern.object.some => q.object = pattern.object.term
    /\ pattern.graph_name.some => q.graph_name = pattern.graph_name.term

\* C8: quads_for_pattern returns exactly the stored quads that match the pattern,
\* for every pattern; a quad just inserted is among them for every pattern it
\* matches.
C8_PatternExact ==
    \A t \in Txs : \A pattern \in PatternUniverse :
        PatternQuads(ViewReader(t), tx[t], pattern).quads
            = {q \in StoredQuads(CurrentView(t)) : Matches(q, pattern)}

RECURSIVE NativelyEncoded(_)
NativelyEncoded(term) ==
    CASE term.kind = "Literal" ->
            \/ term.datatype \in IntegerDatatypes /\ ParseI64(term.value).ok
            \/ term.datatype = XsdBoolean /\ term.value \in {"true", "false", "1", "0"}
      [] term.kind = "Triple" ->
            \/ NativelyEncoded(term.subject)
            \/ NativelyEncoded(term.predicate)
            \/ NativelyEncoded(term.object)
      [] OTHER -> FALSE

AtBegin(w) == [w EXCEPT !.read_options = [snapshot |-> SnapshotOf(w.base)]]

\* C14: the reads made inside a transaction use the snapshot taken when it began.
\* Whatever other transactions commit while it runs, a pattern read of the
\* transaction gives the quads of the state at its begin with its own writes laid
\* over, and each of its operations succeeds, fails and writes as it does over that
\* state.
C14_ReadsAtBeginSnapshot ==
    [][\A t \in Txs :
        /\ (rd.status = "closed" /\ rd'.status = "txread")
            => rd'.quads = {q \in StoredQuads(Overlay(tx[t], tx[t].base)) :
                                Matches(q, rd'.pattern)}
        /\ (tx[t].status = "active" /\ tx'[t].nops = tx[t].nops + 1)
            => LET res == eval(AtBegin(tx[t]), tx'[t].lastOp)
               IN  /\ (tx'[t].lastResult = "Err") = res.err
                   /\ ~res.err => /\ tx'[t].puts = res.w.puts
                                  /\ tx'[t].dels = res.w.dels
                                  /\ tx'[t].merges = res.w.merges]_vars

\* a transaction read a pattern after another transaction had committed a quad of
\* the pattern, and did not get the quad
C14_Witness ==
    \E t \in Txs :
        /\ tx[t].status = "active"
        /\ rd.status = "txread"
        /\ EncodeQuad(QuadD256) \in StoredQuads(db)
        /\ Matches(EncodeQuad(QuadD256), rd.pattern)
        /\ EncodeQuad(QuadD256) \notin rd.quads
        /\ tx[t].nops > 0

\* transaction t evaluates an operation of kind op in this step
Evaluates(t, op) ==
    /\ tx[t].status = "active"
    /\ tx'[t].nops = tx[t].nops + 1
    /\ tx'[t].lastOp.op = op

\* the operation evaluated in this step failed with message and wrote nothing
FailedWith(t, message) ==
    /\ tx'[t].status = "failed"
    /\ tx'[t].lastResult = "Err"
    /\ tx'[t].error.kind = "Query"
    /\ tx'[t].error.message = message
    /\ TxView(tx'[t]) = TxView(tx[t])

\* the operation evaluated in this step succeeded
Succeeded(t) == tx'[t].status = "active" /\ tx'[t].lastResult = "Ok"

Targeted(q, target) ==
    CASE target.kind = "NamedNode" -> q.graph_name = EncodeTerm(target.graph)
      [] target.kind = "DefaultGraph" -> q.graph_name = EncodedDefaultGraph
      [] target.kind = "NamedGraphs" -> q.graph_name # EncodedDefaultGraph
      [] target.kind = "AllGraphs" -> TRUE

RECURSIVE LabelPairs(_, _)
LabelPairs(written, made) ==
    CASE written.kind = "BlankNode" -> {<<written.str, made>>}
      [] written.kind = "Triple" ->
            LabelPairs(written.subject, made.subject)
            \cup LabelPairs(written.object, made.object)
      [] OTHER -> {}

QuadLabelPairs(written, made) ==
    LabelPairs(written.subject, made.subject) \cup LabelPairs(written.object, made.object)

\* made is written with blank nodes in the place of its labels, and nothing else
\* changed
RECURSIVE SameButLabels(_, _)
SameButLabels(written, made) ==
    CASE written.kind = "BlankNode" -> made.kind = "BlankNode"
      [] written.kind = "Triple" ->
            /\ made.kind = "Triple"
            /\ SameButLabels(written.subject, made.subject)
            /\ made.predicate = written.predicate
            /\ SameButLabels(written.object, made.object)
      [] OTHER -> made = written

\* pairs give one blank node to each label and different ones to different labels
OneToOne(pairs) ==
    \A a \in pairs, b \in pairs : (a[1] = b[1]) <=> (a[2] = b[2])

\* the pairs of the INSERT DATA operation op
DataPairs(op) == UNION {QuadLabelPairs(op.data[i], op.out[i]) : i \in 1..Len(op.data)}

\* C18: in INSERT DATA blank nodes are allocated per operation.  Each quad written
\* is the quad of the data with a blank node in the place of each label; in one
\* operation a label stands for one blank node wherever it occurs, also inside
\* quoted triples, and two labels for two blank nodes; the blank nodes of two
\* INSERT DATA operations of a request are different, same label or not.  A quad
\* written is stored until a later DELETE of the request removes it.
C18_BlankNodesPerOperation ==
    ev.stage # "none"
    => /\ \A k \in 1..Len(ev.ops) :
            ev.ops[k].kind = "InsertData"
            => /\ Len(ev.ops[k].out) = Len(ev.ops[k].data)
               /\ \A i \in 1..Len(ev.ops[k].data) :
                    /\ SameButLabels(ev.ops[k].data[i].subject, ev.ops[k].out[i].subject)
                    /\ SameButLabels(ev.ops[k].data[i].object, ev.ops[k].out[i].object)
                    /\ ev.ops[k].out[i].predicate = ev.ops[k].data[i].predicate
                    /\ ev.ops[k].out[i].graph_name = ev.ops[k].data[i].graph_name
                    /\ \/ ev.ops[k].out[i] \in ev.quads
                       \/ \E l \in (k + 1)..Len(ev.ops) :
                            /\ ev.ops[l].kind = "DeleteInsert"
                            /\ \E j \in 1..Len(ev.ops[l].log) :
                                    /\ ev.ops[l].log[j].kind = "remove"
                                    /\ ev.ops[l].log[j].quad = ev.ops[k].out[i]
               /\ OneToOne(DataPairs(ev.ops[k]))
       /\ \A k \in 1..Len(ev.ops), l \in 1..Len(ev.ops) :
            (k < l /\ ev.ops[k].kind = "InsertData" /\ ev.ops[l].kind = "InsertData")
            => {a[2] : a \in DataPairs(ev.ops[k])} \cap {a[2] : a \in DataPairs(ev.ops[l])}
                = {}

\* two INSERT DATA operations of a request used the label b1, the first also inside
\* a quoted triple and with a second label
C18_Witness ==
    /\ ev.stage = "active"
    /\ Len(ev.ops) = 2
    /\ ev.ops[1].kind = "InsertData"
    /\ ev.ops[2].kind = "InsertData"
    /\ ev.ops[1].data = <<Quad(BlankB1, NodeP, NodeA, DefaultGraph),
                          Quad(Triple(BlankB1, NodeP, BlankB2), NodeP, Int255, DefaultGraph)>>
    /\ ev.ops[2].data = <<Quad(BlankB1, NodeP, NodeA, DefaultGraph)>>

\* what operation op wrote for the INSERT templates of its solution number row
Inserted(op, row) ==
    {op.log[i] : i \in {j \in 1..Len(op.log) :
                            op.log[j].kind = "insert" /\ op.log[j].row = row}}

\* the pairs (label, blank node) of the INSERT templates of op for solution row
RowPairs(op, row) == UNION {QuadLabelPairs(e.template, e.quad) : e \in Inserted(op, row)}

\* the blank nodes made by the operations before the k-th of the request
MadeBefore(k) ==
    UNION {{a[2] : a \in DataPairs(ev.ops[j])} :
            j \in {i \in 1..(k - 1) : ev.ops[i].kind = "InsertData"}}

\* C19: in DELETE/INSERT WHERE the blank nodes of the INSERT templates are made anew
\* once per solution.  For one solution a label stands for one blank node in all
\* INSERT templates and two labels for two blank nodes; for two solutions the blank
\* nodes are different; and none of them was made by an earlier operation.
C19_BlankNodesPerSolution ==
    ev.stage # "none"
    => \A k \in 1..Len(ev.ops) :
        ev.ops[k].kind = "DeleteInsert"
        => /\ \A r \in 1..Len(ev.ops[k].tuples) :
                /\ OneToOne(RowPairs(ev.ops[k], r))
                /\ {a[2] : a \in RowPairs(ev.ops[k], r)} \cap MadeBefore(k) = {}
           /\ \A r1 \in 1..Len(ev.ops[k].tuples), r2 \in 1..Len(ev.ops[k].tuples) :
                r1 < r2
                => {a[2] : a \in RowPairs(ev.ops[k], r1)}
                    \cap {a[2] : a \in RowPairs(ev.ops[k], r2)} = {}

\* after an INSERT DATA with the label b1, a DELETE/INSERT with two solutions wrote,
\* for each of them, two INSERT templates that share the label b1
C19_Witness ==
    /\ ev.stage = "done"
    /\ Len(ev.ops) = 2
    /\ ev.ops[1].kind = "InsertData"
    /\ MadeBefore(2) # {}
    /\ ev.ops[2].insert = <<Quad(BlankB1, NodeP, VarX, DefaultGraph),
                            Quad(VarX, NodeP, Triple(BlankB1, NodeP, VarY), DefaultGraph)>>
    /\ Len(ev.ops[2].tuples) = 2
    /\ \A r \in 1..2 : \E a \in Inserted(ev.ops[2], r), b \in Inserted(ev.ops[2], r) :
            a.template # b.template

\* the variables of a template
RECURSIVE Variables(_)
Variables(term) ==
    CASE term.kind = "Variable" -> {term.name}
      [] term.kind = "Triple" ->
            Variables(term.subject) \cup Variables(term.predicate) \cup Variables(term.object)
      [] OTHER -> {}

QuadVariables(quad) ==
    Variables(quad.subject) \cup Variables(quad.predicate) \cup Variables(quad.object)
    \cup Variables(quad.graph_name)

\* template has a variable that values does not bind
HasUnbound(template, values) == \E v \in QuadVariables(template) : ~values[v].some

Templates(op) ==
    {op.insert[i] : i \in 1..Len(op.insert)} \cup {op.delete[i] : i \in 1..Len(op.delete)}

\* C20: in DELETE/INSERT WHERE a template with a variable the solution does not
\* bind, at any position, also inside a quoted triple, is skipped for this solution:
\* nothing is inserted or removed for it, the templates of the operation that the
\* solution binds are applied for it, and the update does not fail.
C20_UnboundSkipped ==
    ev.stage # "none"
    => \A k \in 1..Len(ev.ops) :
        ev.ops[k].kind = "DeleteInsert"
        => \A r \in 1..Len(ev.ops[k].tuples), t \in Templates(ev.ops[k]) :
            HasUnbound(t, ev.ops[k].tuples[r])
            => /\ ~ev.ops[k].err
               /\ \A i \in 1..Len(ev.ops[k].log) :
                    ~(ev.ops[k].log[i].row = r /\ ev.ops[k].log[i].template = t)
               /\ \A u \in Templates(ev.ops[k]) :
                    (/\ ~HasUnbound(u, ev.ops[k].tuples[r])
                     /\ convert_quad_pattern(u, ev.ops[k].tuples[r], ev.w, NoBnodes(0)).some)
                    => \E i \in 1..Len(ev.ops[k].log) :
                        ev.ops[k].log[i].row = r /\ ev.ops[k].log[i].template = u

\* the blank nodes of a term
RECURSIVE BlankNodes(_)
BlankNodes(term) ==
    CASE term.kind = "BlankNode" -> {term}
      [] term.kind = "Triple" -> BlankNodes(term.subject) \cup BlankNodes(term.object)
      [] OTHER -> {}

QuadBlankNodes(quad) == BlankNodes(quad.subject) \cup BlankNodes(quad.object)

\* what operation op removed for its DELETE templates
Removed(op) == {op.log[i] : i \in {j \in 1..Len(op.log) : op.log[j].kind = "remove"}}

\* template with the value the solution gives to each of its variables
RECURSIVE Substituted(_, _)
Substituted(term, values) ==
    CASE term.kind = "Variable" ->
            IF values[term.name].term = EncodedDefaultGraph THEN DefaultGraph
            ELSE decode_term(Transaction_reader(ev.w), ev.w, values[term.name].term).term
      [] term.kind = "Triple" ->
            Triple(Substituted(term.subject, values), Substituted(term.predicate, values),
                   Substituted(term.object, values))
      [] OTHER -> term

SubstitutedQuad(quad, values) ==
    Quad(Substituted(quad.subject, values), Substituted(quad.predicate, values),
         Substituted(quad.object, values), Substituted(quad.graph_name, values))

\* C21 as stated: in DELETE WHERE and DELETE/INSERT WHERE a DELETE template instance
\* is removed from the store only if, after the substitution of the solution, it has
\* no variable and no blank node.
C21_Original ==
    ev.stage # "none"
    => \A k \in 1..Len(ev.ops) :
        ev.ops[k].kind = "DeleteInsert"
        => \A e \in Removed(ev.ops[k]) :
            /\ QuadVariables(e.quad) = {}
            /\ QuadBlankNodes(e.quad) = {}

\* C21: a DELETE template instance is removed only if the solution binds every
\* variable of the template: what is removed is the template with the value of each
\* variable in its place, and has no variable.  The template has no blank node label
\* of its own, but a variable bound to a blank node of the store gives an instance
\* with this blank node, and the instance is removed.
C21_RemovedAreGroundInstances ==
    ev.stage # "none"
    => \A k \in 1..Len(ev.ops) :
        ev.ops[k].kind = "DeleteInsert"
        => \A e \in Removed(ev.ops[k]) :
            /\ ~HasUnbound(e.template, ev.ops[k].tuples[e.row])
            /\ QuadVariables(e.quad) = {}
            /\ QuadBlankNodes(e.template) = {}
            /\ e.quad = SubstitutedQuad(e.template, ev.ops[k].tuples[e.row])

\* an INSERT DATA stored a quad whose subject is a blank node, and a DELETE whose
\* solution binds its variable to this blank node removed the quad
C21_Witness ==
    /\ ev.stage = "done"
    /\ Len(ev.ops) = 2
    /\ ev.ops[1].kind = "InsertData"
    /\ ev.ops[1].out = <<Quad(NumericalBlankNode(0), NodeP, NodeA, DefaultGraph)>>
    /\ ev.ops[2].insert = <<>>
    /\ \E e \in Removed(ev.ops[2]) :
            /\ e.quad = Quad(NumericalBlankNode(0), NodeP, NodeA, DefaultGraph)
            /\ e.quad \notin ev.quads

\* transaction t evaluates a DELETE/INSERT WHERE in this step
EvaluatesDeleteInsert(t) ==
    /\ tx[t].status = "active"
    /\ tx'[t].nops = tx[t].nops + 1
    /\ tx'[t].lastOp.op = "DeleteInsert"

\* the transaction w before its first write
Unwritten(w) == [w EXCEPT !.puts = {}, !.dels = {}, !.merges = <<>>]

\* C22: a DELETE/INSERT WHERE whose pattern has no solution succeeds and writes
\* nothing, whatever its templates are: the transaction is as it was (write batch,
\* and the quads, graph names and reference counts it shows); and a request made
\* of this operation only commits and leaves the database as it was.
C22_NoSolutionNoChange ==
    [][\A t \in Txs :
        /\ (/\ EvaluatesDeleteInsert(t)
            /\ plan_evaluator(tx[t], tx'[t].lastOp.pattern) = <<>>)
           => /\ tx'[t].status = "active"
              /\ tx'[t].lastResult = "Ok"
              /\ tx'[t].puts = tx[t].puts
              /\ tx'[t].dels = tx[t].dels
              /\ tx'[t].merges = tx[t].merges
              /\ Visible(TxView(tx'[t])) = Visible(TxView(tx[t]))
        /\ (/\ tx[t].status = "active"
            /\ tx[t].nops = 1
            /\ tx[t].lastOp.op = "DeleteInsert"
            /\ plan_evaluator(Unwritten(tx[t]), tx[t].lastOp.pattern) = <<>>
            /\ tx'[t].is_ended)
           => /\ tx'[t].outcome = "committed"
              /\ db' = db]_vars

\* a request made of INSERT { <a> <p> 256 } WHERE { <a> <p> ?x }, with a DELETE
\* template, committed on a database that holds a quad but none for the pattern
C22_Witness ==
    \E t \in Txs :
        /\ tx[t].outcome = "committed"
        /\ tx[t].lastOp.op = "DeleteInsert"
        /\ tx[t].lastOp.pattern = Quad(NodeA, NodeP, VarX, DefaultGraph)
        /\ tx[t].lastOp.insert = <<Quad(NodeA, NodeP, Int256, DefaultGraph)>>
        /\ tx[t].lastOp.delete # <<>>
        /\ ~tx[t].wrote
        /\ StoredQuads(db) = {EncodeQuad(QuadStar)}

\* the operations SILENT can be set on
Silenceable == {"Load", "Create", "Drop", "Clear"}

\* C23: SILENT on LOAD, CREATE, DROP and CLEAR converts errors to success.  An
\* operation of these kinds with SILENT set, whatever error its evaluation raises,
\* returns Ok, and the request goes on with its next operation.
C23_SilentSwallowsErrors ==
    [][\A t \in Txs :
        (/\ tx[t].status = "active"
         /\ tx'[t].nops = tx[t].nops + 1
         /\ tx'[t].lastOp.op \in Silenceable
         /\ tx'[t].lastOp.silent)
        => /\ tx'[t].lastResult = "Ok"
           /\ tx'[t].status = "active"]_vars

\* quad is an instance of the quad pattern
IsInstance(pattern, quad) ==
    /\ pattern.subject.kind = "Variable" \/ pattern.subject = quad.subject
    /\ pattern.predicate.kind = "Variable" \/ pattern.predicate = quad.predicate
    /\ pattern.object.kind = "Variable" \/ pattern.object = quad.object
    /\ pattern.graph_name.kind = "Variable" \/ pattern.graph_name = quad.graph_name

\* the solution of the pattern that quad makes
SolutionOf(pattern, quad) ==
    [x |-> binding(pattern, EncodeQuad(quad), "x"),
     y |-> binding(pattern, EncodeQuad(quad), "y")]

\* the WHERE pattern, evaluated in transaction w, has the solution of quad
Solves(w, pattern, quad) ==
    \E i \in 1..Len(plan_evaluator(w, pattern)) :
        plan_evaluator(w, pattern)[i] = SolutionOf(pattern, quad)

\* what the reader of transaction w reads is its write batch over its snapshot
ReadsOwnWrites(w) ==
    /\ \A cf \in KeyCfs :
        /\ \A k \in PutKeys(w, cf) :
                Reader_get(Transaction_reader(w), w, cf, k) = [err |-> FALSE, found |-> TRUE]
        /\ \A k \in DelKeys(w, cf) :
                Reader_get(Transaction_reader(w), w, cf, k) = [err |-> FALSE, found |-> FALSE]
    /\ \A h \in DOMAIN w.merges :
        /\ Reader_get_id2str(Transaction_reader(w), w, h).found
        /\ Reader_get_id2str(Transaction_reader(w), w, h).value.count
            = w.merges[h].count
              + (IF h \in DOMAIN ReadBase(w.read_options).id2str
                 THEN ReadBase(w.read_options).id2str[h].count ELSE 0)

\* C24: read-your-writes inside a transaction.  The reader of a transaction reads
\* the puts, deletes and merges the transaction made and did not commit yet; so
\* after an operation of a request, and before anything is committed, a quad it
\* inserted is contained and is a solution of the WHERE patterns it matches, a quad
\* it deleted is neither, a graph it created exists for CLEAR and CREATE, and a graph
\* it dropped does not exist for CLEAR and DROP.
C24_ReadYourWrites ==
    [][\A t \in Txs :
        (/\ tx[t].status = "active"
         /\ tx'[t].status = "active"
         /\ tx'[t].nops = tx[t].nops + 1)
        => /\ db' = db
           /\ ReadsOwnWrites(tx'[t])
           /\ tx'[t].lastOp.op = "InsertData"
                => /\ contains(Transaction_reader(tx'[t]), tx'[t],
                               EncodeQuad(tx'[t].lastOp.quad))
                        = [err |-> FALSE, value |-> TRUE]
                   /\ \A pattern \in WherePatterns :
                        IsInstance(pattern, tx'[t].lastOp.quad)
                        => Solves(tx'[t], pattern, tx'[t].lastOp.quad)
           /\ tx'[t].lastOp.op = "DeleteData"
                => /\ contains(Transaction_reader(tx'[t]), tx'[t],
                               EncodeQuad(tx'[t].lastOp.quad))
                        = [err |-> FALSE, value |-> FALSE]
                   /\ \A pattern \in WherePatterns :
                        ~Solves(tx'[t], pattern, tx'[t].lastOp.quad)
           /\ tx'[t].lastOp.op = "Create"
                => /\ ~eval_clear(tx'[t], NamedTarget(tx'[t].lastOp.graph), FALSE).err
                   /\ eval_create(tx'[t], tx'[t].lastOp.graph, FALSE).err
           /\ tx'[t].lastOp.op = "Drop"
                => /\ eval_clear(tx'[t], tx'[t].lastOp.target, FALSE).err
                   /\ eval_drop(tx'[t], tx'[t].lastOp.target, FALSE).err
                   /\ ~eval_create(tx'[t], tx'[t].lastOp.target.graph, FALSE).err
           /\ (/\ tx'[t].lastOp.op = "DeleteInsert"
               /\ tx'[t].lastOp.delete = <<>>
               /\ plan_evaluator(tx[t], tx'[t].lastOp.pattern) # <<>>)
                => \A i \in 1..Len(tx'[t].lastOp.insert) :
                    tx'[t].lastOp.insert[i] \in QuadUniverse
                    => contains(Transaction_reader(tx'[t]), tx'[t],
                                EncodeQuad(tx'[t].lastOp.insert[i])).value]_vars

\* on an empty database, the second operation of a request, an INSERT WHERE, found
\* a solution, in what the first operation wrote, and inserted a quad for it; the
\* request has committed nothing yet
C24_Witness ==
    \E t \in Txs :
        /\ tx[t].status = "active"
        /\ tx[t].nops = 2
        /\ db = EmptyDb
        /\ tx[t].lastOp.op = "DeleteInsert"
        /\ tx[t].lastOp.delete = <<>>
        /\ tx[t].lastOp.insert = <<QuadD256>>
        /\ contains(Transaction_reader(tx[t]), tx[t], EncodeQuad(QuadD256)).value
        /\ ~contains(Transaction_reader(tx[t]), tx[t], EncodeQuad(QuadD255)).value

\* C25: once a transaction has ended, by commit or by rollback, every get,
\* contains_key and scan_prefix made through a reader obtained from it returns an
\* error and no data; the reader does not read the committed state instead.
C25_EndedReaderErrs ==
    rd.status = "handles"
    => /\ (rd.got.read /\ rd.got.ended) => rd.got.result = ReaderError
       /\ (rd.readers > 0 /\ tx[rd.t].is_ended)
            => \A call \in ReadCalls : Reader_call(rd.reader, tx[rd.t], call) = ReaderError
       /\ (rd.got.read /\ ~rd.got.ended) => ~rd.got.result.err

\* the transaction inserted a quad and committed, the quad is in the database, and
\* a get of its key through a reader made before the commit returned the error
C25_Witness ==
    /\ rd.status = "handles"
    /\ rd.got.read
    /\ rd.got.ended
    /\ rd.got.outcome = "committed"
    /\ rd.got.call.fn = "get"
    /\ rd.got.call.key \in db.cfs[rd.got.call.cf]
    /\ rd.got.call.key \notin rd.base.cfs[rd.got.call.cf]
    /\ rd.got.result = ReaderError

\* C26: every transaction ends exactly once.  rocksdb_transaction_commit and
\* rocksdb_transaction_rollback are called at most once together on a transaction;
\* the transaction is destroyed when the Transaction and every reader made from it
\* are gone, and by then exactly one of the two was called; a transaction that was
\* neither committed nor rolled back before is rolled back then, and the database is
\* as it was when it began; a transaction committed or rolled back before is not
\* rolled back again.
C26_EndsExactlyOnce ==
    rd.status = "handles"
    => /\ rd.commits + rd.rollbacks <= 1
       /\ rd.destroyed = (~rd.transaction /\ rd.readers = 0)
       /\ rd.destroyed
            => /\ rd.commits + rd.rollbacks = 1
               /\ tx[rd.t].status = "ended"
       /\ (rd.destroyed /\ rd.commits = 0)
            => /\ tx[rd.t].outcome = "rolled_back"
               /\ db = rd.base
       /\ rd.commits = 1 => tx[rd.t].outcome = "committed"
       /\ rd.commits + rd.rollbacks = 0 => tx[rd.t].status \in {"active", "failed"}

\* a transaction that wrote was dropped without commit while a reader made from it
\* was alive, and was rolled back when the reader was dropped
C26_Witness ==
    /\ rd.status = "handles"
    /\ rd.destroyed
    /\ rd.cloned > 0
    /\ rd.commits = 0
    /\ rd.rollbacks = 1
    /\ rd.got.read
    /\ ~rd.got.ended
    /\ tx[rd.t].wrote
    /\ tx[rd.t].outcome = "rolled_back"

\* every string hash the encoded term refers to is in the string store that
\* transaction w reads
HashesPresent(w, encoded) ==
    \A h \in ReferencedHashes(encoded) :
        contains_str(Transaction_reader(w), w, h) = [err |-> FALSE, value |-> TRUE]

QuadHashesPresent(w, quad) ==
    /\ HashesPresent(w, quad.subject)
    /\ HashesPresent(w, quad.predicate)
    /\ HashesPresent(w, quad.object)
    /\ HashesPresent(w, quad.graph_name)

\* C27: decoding fails only if a string hash that the encoded term refers to is
\* missing from the string store.  When all hashes of an encoded term of the store
\* are present, decode_term returns a term, decode_subject does so for a term that
\* is no literal, decode_named_node for an IRI, and decode_quad returns the quad of
\* an encoded quad; when decoding fails, it fails with a decoding error and a hash is
\* missing.
C27_DecodeFailsOnlyOnMissingHash ==
    /\ codec.stage = "decoded"
        => /\ HashesPresent(codec.w, codec.encoded)
                => /\ ~codec.result.err
                   /\ codec.result.term.kind = codec.term.kind
                   /\ codec.term.kind # "Literal"
                        => ~decode_subject(Transaction_reader(codec.w), codec.w,
                                           codec.encoded).err
                   /\ codec.term.kind = "NamedNode"
                        => ~decode_named_node(Transaction_reader(codec.w), codec.w,
                                              codec.encoded).err
           /\ codec.result.err
                => /\ codec.result.kind = "Decoder"
                   /\ ~HashesPresent(codec.w, codec.encoded)
    /\ codec.stage = "decoded_quad"
        => /\ QuadHashesPresent(codec.w, codec.encoded)
                => /\ ~codec.result.err
                   /\ codec.result.quad = codec.quad
           /\ codec.result.err
                => /\ codec.result.kind = "Decoder"
                   /\ ~QuadHashesPresent(codec.w, codec.encoded)

\* a quad whose subject is a quoted triple and whose object refers to two strings
\* was decoded with all its strings in the store
C27_Witness ==
    /\ codec.stage = "decoded_quad"
    /\ codec.quad = QuadStar
    /\ codec.held
    /\ QuadHashesPresent(codec.w, codec.encoded)
    /\ Cardinality(ReferencedHashes(codec.encoded.object)) = 2
    /\ ~codec.result.err

\* the generic typed variant of a literal: its lexical form (inline, or its hash)
\* and the hash of its datatype
TypedVariant(literal) ==
    IF Len(literal.value) <= MaxSmallStringLen
    THEN [tag |-> "SmallTypedLiteral", value |-> literal.value,
          datatype_id |-> [hash |-> SipHash24(literal.datatype)]]
    ELSE [tag |-> "BigTypedLiteral", value_id |-> [hash |-> SipHash24(literal.value)],
          datatype_id |-> [hash |-> SipHash24(literal.datatype)]]

\* the variant the rules give a literal; native literals carry their value and refer
\* to no string
RuledVariant(literal, encoded) ==
    CASE literal.datatype \in {XsdInteger, XsdByte} ->
            IF literal.value \in {"255", "256", "1", "01"}
            THEN encoded.tag = "IntegerLiteral" /\ DOMAIN encoded = {"tag", "value"}
            ELSE encoded = TypedVariant(literal)
      [] literal.datatype = XsdBoolean ->
            IF literal.value \in {"true", "false", "1", "0"}
            THEN /\ encoded.tag = "BooleanLiteral"
                 /\ encoded.value = (literal.value \in {"true", "1"})
            ELSE encoded = TypedVariant(literal)
      [] literal.datatype = XsdString ->
            IF Len(literal.value) <= MaxSmallStringLen
            THEN encoded = [tag |-> "SmallStringLiteral", value |-> literal.value]
            ELSE encoded = [tag |-> "BigStringLiteral",
                            value_id |-> [hash |-> SipHash24(literal.value)]]
      [] literal.datatype = RdfLangString /\ literal.language # "" ->
            encoded =
                CASE Len(literal.value) <= MaxSmallStringLen
                     /\ Len(literal.language) <= MaxSmallStringLen ->
                        [tag |-> "SmallSmallLangStringLiteral", value |-> literal.value,
                         language |-> literal.language]
                  [] Len(literal.value) <= MaxSmallStringLen
                     /\ Len(literal.language) > MaxSmallStringLen ->
                        [tag |-> "SmallBigLangStringLiteral", value |-> literal.value,
                         language_id |-> [hash |-> SipHash24(literal.language)]]
                  [] Len(literal.value) > MaxSmallStringLen
                     /\ Len(literal.language) <= MaxSmallStringLen ->
                        [tag |-> "BigSmallLangStringLiteral",
                         value_id |-> [hash |-> SipHash24(literal.value)],
                         language |-> literal.language]
                  [] OTHER ->
                        [tag |-> "BigBigLangStringLiteral",
                         value_id |-> [hash |-> SipHash24(literal.value)],
                         language_id |-> [hash |-> SipHash24(literal.language)]]
      [] OTHER -> encoded = TypedVariant(literal)

\* the literals in a term
RECURSIVE LiteralsOf(_)
LiteralsOf(term) ==
    CASE term.kind = "Literal" -> {term}
      [] term.kind = "Triple" ->
            LiteralsOf(term.subject) \cup LiteralsOf(term.predicate)
            \cup LiteralsOf(term.object)
      [] OTHER -> {}

C29_ScanPrefixExact ==
    (rd.status = "scan" /\ rd.iter.open) =>
        /\ \A i \in 1..Len(rd.yielded) : StartsWith(rd.yielded[i], rd.iter.prefix)
        /\ \A i, j \in 1..Len(rd.yielded) :
               i < j => BytesLess(rd.yielded[i], rd.yielded[j])
        /\ ~rd.iter.is_currently_valid =>
               {rd.yielded[i] : i \in 1..Len(rd.yielded)}
                   = {k \in rd.keys : StartsWith(k, rd.iter.prefix)}


\* the strings the subject, the predicate and the object of an encoded quad refer to
QuadStrs(quad) ==
    remove_term_values(quad.subject) \o remove_term_values(quad.predicate)
    \o remove_term_values(quad.object)

Occurrences(ids, h) == Cardinality({i \in 1..Len(ids) : ids[i].hash = h})

RECURSIVE QuadReferences(_, _)
QuadReferences(stored, h) ==
    IF stored = {} THEN 0
    ELSE Occurrences(QuadStrs(CHOOSE q \in stored : TRUE), h)
         + QuadReferences(stored \ {CHOOSE q \in stored : TRUE}, h)

RECURSIVE GraphReferences(_, _)
GraphReferences(names, h) ==
    IF names = {} THEN 0
    ELSE Occurrences(remove_term_values(CHOOSE g \in names : TRUE), h)
         + GraphReferences(names \ {CHOOSE g \in names : TRUE}, h)

\* the references to the string of hash h from the quads and the graph names stored
References(state, h) ==
    QuadReferences(StoredQuads(state), h) + GraphReferences(StoredGraphs(state), h)

RECURSIVE SumOfCounts(_)
SumOfCounts(values) ==
    IF values = <<>> THEN 0 ELSE Head(values).count + SumOfCounts(Tail(values))

\* C31: whatever groups of operands partial merges have merged first, the full merge
\* gives the value it gives on the operands as they were written; its count is the sum
\* of the count of the existing value and of the counts of the operands; the
\* compaction filter removes the value when that count is zero and keeps it when it is
\* positive.
C31_MergeAssociativeAdditive ==
    (rd.status = "merge" /\ rd.stage \in {"merged", "filtered"}) =>
        /\ rd.value = merge_full(rd.existing, rd.operands)
        /\ rd.value.count = SumOfCounts(rd.existing) + SumOfCounts(rd.operands)
        /\ rd.stage = "filtered" =>
            /\ rd.value.count = 0 => rd.action = "Remove"
            /\ rd.value.count > 0 => rd.action = "Keep"

\* three operands were merged over an existing value, two of them by a partial merge
\* first; the count is zero and the filter has removed the value
C31_Witness ==
    /\ rd.status = "merge" /\ rd.stage = "filtered"
    /\ rd.existing # <<>>
    /\ Len(rd.operands) = MaxOperands /\ Len(rd.pending) < Len(rd.operands)
    /\ rd.value.count = 0 /\ rd.action = "Remove"


\* C32: while an Iter exists the database is not closed, the snapshot of a Snapshot
\* reader it was made from is not released, the transaction of a Transaction reader it
\* was made from is not destroyed, and the read options and the upper-bound buffers of
\* the values that exist exist, in whatever order the Db, the Readers, the Transaction
\* and the Iters are dropped.
C32_IterKeepsAlive ==
    rd.status = "owners" =>
        /\ \A i \in 1..Len(rd.iters) :
            /\ ~rd.h.closed
            /\ rd.iters[i].kind = "Snapshot" => ~rd.h.released
            /\ rd.iters[i].kind = "Transaction" => ~rd.h.destroyed
        /\ rd.h.options = owners(rd) + Len(rd.iters) + (IF rd.transaction THEN 1 ELSE 0)
        /\ rd.h.buffers = Cardinality({i \in 1..Len(rd.iters) : rd.iters[i].upper_bound})

\* an Iter of a Snapshot reader and one of a Transaction reader, each with an upper
\* bound, exist after the Db, every Reader and the Transaction were dropped
C32_Witness ==
    /\ rd.status = "owners"
    /\ ~rd.db /\ ~rd.transaction /\ rd.h.inner_made
    /\ rd.readers = NoReaders
    /\ \E i, j \in 1..Len(rd.iters) :
        /\ rd.iters[i].kind = "Snapshot" /\ rd.iters[i].upper_bound
        /\ rd.iters[j].kind = "Transaction" /\ rd.iters[j].upper_bound


\* C33: the solutions a DELETE/INSERT WHERE writes its templates for are the solutions
\* of its pattern in the transaction as it is before the first write of the operation:
\* no write of the operation adds, removes or changes a solution.
C33_SolutionsOfStateBefore ==
    [][\A t \in Txs :
        (EvaluatesDeleteInsert(t) /\ tx'[t].lastResult = "Ok")
        => streamed_tuples(tx[t], tx'[t].lastOp.delete, tx'[t].lastOp.insert,
                           tx'[t].lastOp.pattern)
            = plan_evaluator(tx[t], tx'[t].lastOp.pattern)]_vars


(***************************************************************************)
(* C34: after a DELETE/INSERT operation that did not fail, every quad an   *)
(* INSERT template produced for some solution is in the store, also when   *)
(* a DELETE template produces the same quad for another solution.          *)
(***************************************************************************)
InsertedBy(log) == {log[j].quad : j \in {k \in 1..Len(log) : log[k].kind = "insert"}}

C34_InsertionsSurvive ==
    (ev.stage = "done" /\ ev.ops[Len(ev.ops)].kind = "DeleteInsert")
    => \A quad \in InsertedBy(ev.ops[Len(ev.ops)].log) :
        /\ quad \in ev.quads
        /\ quad \in QuadUniverse => quad \in UniverseQuads(ev.w)


(***************************************************************************)
(* C35: in DELETE/INSERT WHERE a template whose substitution gives an      *)
(* ill-formed quad (a literal as subject, a predicate that is not a named  *)
(* node, a graph name that is neither a named node nor the default graph)  *)
(* is skipped for this solution: nothing is written for it and the update  *)
(* does not fail.                                                          *)
(***************************************************************************)
IllFormed(quad) ==
    \/ quad.subject.kind = "Literal"
    \/ quad.predicate.kind # "NamedNode"
    \/ quad.graph_name.kind \notin {"NamedNode", "DefaultGraph"}

C35_IllFormedSkipped ==
    ev.stage # "none"
    => \A k \in 1..Len(ev.ops) :
        ev.ops[k].kind = "DeleteInsert"
        => \A r \in 1..Len(ev.ops[k].tuples), t \in Templates(ev.ops[k]) :
            (/\ ~HasUnbound(t, ev.ops[k].tuples[r])
             /\ IllFormed(SubstitutedQuad(t, ev.ops[k].tuples[r])))
            => /\ ~ev.ops[k].err
               /\ \A i \in 1..Len(ev.ops[k].log) :
                    ~(ev.ops[k].log[i].row = r /\ ev.ops[k].log[i].template = t)


(***************************************************************************)
(* Encoded terms as keys of a hash set (the keys of a hash join, of a      *)
(* group, of DISTINCT).  A float is kept as the fields of its IEEE 754     *)
(* binary form: f32 as sign, 8 exponent bits and 23 fraction bits, f64 as  *)
(* sign, 11 exponent bits and 52 fraction bits, the latter as two halves   *)
(* of 26 bits.  What a term hands to the Hasher is kept as the bytes       *)
(* written; the Hasher gives different hashes to different writes.         *)
(***************************************************************************)
\* the exponent of a NaN or an infinity, as f32::is_nan and f64::is_nan test it
F32ExponentMax == 255
F64ExponentMax == 2047

F32(sign, exponent, fraction) == [sign |-> sign, exponent |-> exponent, fraction |-> fraction]
F64(sign, exponent, hi, lo) == [sign |-> sign, exponent |-> exponent, hi |-> hi, lo |-> lo]

FloatLiteral(value) == [tag |-> "FloatLiteral", float |-> value]
DoubleLiteral(value) == [tag |-> "DoubleLiteral", double |-> value]

\* f32::is_nan and f64::is_nan
f32_is_nan(v) == v.exponent = F32ExponentMax /\ v.fraction # 0
f64_is_nan(v) == v.exponent = F64ExponentMax /\ (v.hi # 0 \/ v.lo # 0)

f32_is_zero(v) == v.exponent = 0 /\ v.fraction = 0
f64_is_zero(v) == v.exponent = 0 /\ v.hi = 0 /\ v.lo = 0

\* a == b of f32 and of f64: no NaN is equal to anything, the two zeros are equal
f32_eq(a, b) == ~f32_is_nan(a) /\ ~f32_is_nan(b) /\ (a = b \/ (f32_is_zero(a) /\ f32_is_zero(b)))
f64_eq(a, b) == ~f64_is_nan(a) /\ ~f64_is_nan(b) /\ (a = b \/ (f64_is_zero(a) /\ f64_is_zero(b)))

\* to_ne_bytes of the targets the store is built for (little-endian)
f32_to_ne_bytes(v) ==
    << v.fraction % 256, (v.fraction \div 256) % 256,
       (v.exponent % 2) * 128 + v.fraction \div 65536,
       v.sign * 128 + v.exponent \div 2 >>

f64_to_ne_bytes(v) ==
    << v.lo % 256, (v.lo \div 256) % 256, (v.lo \div 65536) % 256,
       v.lo \div 16777216 + (v.hi % 64) * 4,
       (v.hi \div 64) % 256, (v.hi \div 16384) % 256,
       v.hi \div 4194304 + (v.exponent % 16) * 16,
       v.sign * 128 + v.exponent \div 16 >>

\* the native-order bytes of big-endian bytes
to_ne_bytes(be) == [i \in 1..Len(be) |-> be[Len(be) + 1 - i]]

\* impl PartialEq for EncodedTerm; EncodedTriple derives PartialEq
RECURSIVE EncodedTerm_eq(_, _)
EncodedTerm_eq(a, b) ==
    IF a.tag # b.tag THEN FALSE
    ELSE CASE a.tag = "FloatLiteral" ->
                IF f32_is_nan(a.float) THEN f32_is_nan(b.float) ELSE f32_eq(a.float, b.float)
           [] a.tag = "DoubleLiteral" ->
                IF f64_is_nan(a.double) THEN f64_is_nan(b.double) ELSE f64_eq(a.double, b.double)
           [] a.tag = "Triple" ->
                /\ EncodedTerm_eq(a.subject, b.subject)
                /\ EncodedTerm_eq(a.predicate, b.predicate)
                /\ EncodedTerm_eq(a.object, b.object)
           [] OTHER -> a = b

\* impl Hash for EncodedTerm: state is what was written to the Hasher; EncodedTriple
\* derives Hash
RECURSIVE EncodedTerm_hash(_, _)
EncodedTerm_hash(e, state) ==
    CASE e.tag = "NamedNode" -> state \o to_ne_bytes(e.iri_id.hash)
      [] e.tag = "DefaultGraph" -> state
      [] e.tag = "BigTypedLiteral" ->
            state \o to_ne_bytes(e.value_id.hash) \o to_ne_bytes(e.datatype_id.hash)
      [] e.tag = "FloatLiteral" -> state \o f32_to_ne_bytes(e.float)
      [] e.tag = "DoubleLiteral" -> state \o f64_to_ne_bytes(e.double)
      [] e.tag = "IntegerLiteral" -> state \o to_ne_bytes(ToBeBytes(e.value, IntWidth))
      [] e.tag = "Triple" ->
            EncodedTerm_hash(e.object,
                EncodedTerm_hash(e.predicate, EncodedTerm_hash(e.subject, state)))

\* the hash of a key: the Hasher after the key was written to a new one
hash_of(e) == EncodedTerm_hash(e, <<>>)

\* +0.0, -0.0, 1.0, the NaN of f32::NAN and a NaN with another sign and payload
F32Values ==
    {F32(0, 0, 0), F32(1, 0, 0), F32(0, 127, 0), F32(0, F32ExponentMax, 4194304),
     F32(1, F32ExponentMax, 1)}

F64Values ==
    {F64(0, 0, 0, 0), F64(1, 0, 0, 0), F64(0, 1023, 0, 0),
     F64(0, F64ExponentMax, 33554432, 0), F64(0, F64ExponentMax, 33554432, 1)}

EncodedTriple(s, p, o) == [tag |-> "Triple", subject |-> s, predicate |-> p, object |-> o]

KeyTerms ==
    {EncodedDefaultGraph, EncodeTerm(NodeA), EncodeTerm(NodeP), EncodeTerm(Int255), EncodeTerm(Int256),
     EncodeTerm(BigTyped)}
    \cup {FloatLiteral(v) : v \in F32Values}
    \cup {DoubleLiteral(v) : v \in F64Values}
    \cup {EncodedTriple(EncodeTerm(NodeA), EncodeTerm(NodeP), FloatLiteral(v)) :
            v \in {F32(0, 0, 0), F32(1, 0, 0)}}
    \cup {EncodedTriple(EncodeTerm(NodeA), EncodeTerm(NodeP), EncodeTerm(Int255))}

MaxEntries == 2

\* a key of a hash set with the hash it was put under
Entry(key) == [hash |-> hash_of(key), key |-> key]

\* HashSet::contains: the entries under the hash of the key are compared with ==
HashSet_contains(entries, key) ==
    \E e \in entries : e.hash = hash_of(key) /\ EncodedTerm_eq(e.key, key)

\* HashSet::new
Keys_new ==
    /\ rd.status = "closed"
    /\ rd' = [status |-> "keys", entries |-> {}, probed |-> FALSE, probe |-> NoneTerm,
              found |-> FALSE]
    /\ UNCHANGED <<db, tx, everCreated, liveGraphs, idem, codec, ev>>

\* HashSet::insert: a key that is not contained is added
Keys_insert(key) ==
    /\ rd.status = "keys"
    /\ Cardinality(rd.entries) < MaxEntries
    /\ rd' = [rd EXCEPT !.entries = IF HashSet_contains(@, key) THEN @ ELSE @ \cup {Entry(key)},
                         !.probed = FALSE, !.probe = NoneTerm, !.found = FALSE]
    /\ UNCHANGED <<db, tx, everCreated, liveGraphs, idem, codec, ev>>

\* HashSet::contains
Keys_contains(key) ==
    /\ rd.status = "keys"
    /\ rd' = [rd EXCEPT !.probed = TRUE, !.probe = key, !.found = HashSet_contains(rd.entries, key)]
    /\ UNCHANGED <<db, tx, everCreated, liveGraphs, idem, codec, ev>>

KeysNext ==
    \/ Keys_new
    \/ \E key \in KeyTerms : Keys_insert(key)
    \/ \E key \in KeyTerms : Keys_contains(key)

SpecKeys == Init /\ [][KeysNext]_vars

(***************************************************************************)
(* C36: Eq and Hash of EncodedTerm agree: a == b implies hash(a) = hash(b),*)
(* also for NaN values of different bit patterns, for +0.0 and -0.0 and    *)
(* inside quoted triples, so that a key of a hash set that is equal to the *)
(* key looked up is found.                                                 *)
(***************************************************************************)
C36_EqImpliesSameHash ==
    (rd.status = "keys" /\ rd.probed)
    => /\ \A e \in rd.entries :
            EncodedTerm_eq(e.key, rd.probe) => e.hash = hash_of(rd.probe)
       /\ (\E e \in rd.entries : EncodedTerm_eq(e.key, rd.probe)) => rd.found


(***************************************************************************)
(* The string accounting of a writer: a transaction that holds some quads  *)
(* counts the strings of a term and releases them, or inserts a quad and   *)
(* removes it.  prior is the transaction before the insertion.             *)
(***************************************************************************)
RECURSIVE inserted_all(_, _)
inserted_all(w, stored) ==
    IF stored = {} THEN w
    ELSE inserted_all(StorageWriter_insert(w, CHOOSE q \in stored : TRUE).w,
                      stored \ {CHOOSE q \in stored : TRUE})

Strings_transaction(stored) ==
    /\ rd.status = "closed"
    /\ rd' = [status |-> "strings", stage |-> "begun", op |-> [kind |-> "none"],
              w |-> inserted_all(Db_transaction, stored),
              prior |-> inserted_all(Db_transaction, stored)]
    /\ UNCHANGED <<db, tx, everCreated, liveGraphs, idem, codec, ev>>

\* TermEncoder::insert_term of a term and its encoding
Strings_insert_term(term) ==
    /\ rd.status = "strings" /\ rd.stage = "begun"
    /\ rd' = [rd EXCEPT !.stage = "inserted",
                        !.op = [kind |-> "term", term |-> term, encoded |-> EncodeTerm(term)],
                        !.w = insert_term(@, term, EncodeTerm(term))]
    /\ UNCHANGED <<db, tx, everCreated, liveGraphs, idem, codec, ev>>

\* TermEncoder::remove_term of the encoding of the term inserted
Strings_remove_term ==
    /\ rd.status = "strings" /\ rd.stage = "inserted" /\ rd.op.kind = "term"
    /\ rd' = [rd EXCEPT !.stage = "removed", !.w = remove_term(@, rd.op.encoded)]
    /\ UNCHANGED <<db, tx, everCreated, liveGraphs, idem, codec, ev>>

\* StorageWriter::insert of a quad
Strings_insert(quad) ==
    /\ rd.status = "strings" /\ rd.stage = "begun"
    /\ rd' = [rd EXCEPT !.stage = "inserted", !.op = [kind |-> "quad", quad |-> quad],
                        !.w = StorageWriter_insert(@, quad).w]
    /\ UNCHANGED <<db, tx, everCreated, liveGraphs, idem, codec, ev>>

\* StorageWriter::remove of the quad inserted
Strings_remove ==
    /\ rd.status = "strings" /\ rd.stage = "inserted" /\ rd.op.kind = "quad"
    /\ rd' = [rd EXCEPT !.stage = "removed", !.w = StorageWriter_remove(@, rd.op.quad).w]
    /\ UNCHANGED <<db, tx, everCreated, liveGraphs, idem, codec, ev>>

StringsNext ==
    \/ \E stored \in SUBSET QuadUniverse : Strings_transaction(stored)
    \/ \E term \in CodecTerms : Strings_insert_term(term)
    \/ Strings_remove_term
    \/ \E quad \in QuadUniverse : Strings_insert(quad)
    \/ Strings_remove

SpecStrings == Init /\ [][StringsNext]_vars

\* the keys insert_term hands to insert_str
InsertedKeys(term, encoded) ==
    [i \in 1..Len(insert_term_values(term, encoded)) |-> insert_term_values(term, encoded)[i].key]

\* a quad that was not stored was inserted and then removed
QuadInsertedAndRemoved ==
    /\ rd.stage = "removed" /\ rd.op.kind = "quad"
    /\ EncodeQuad(rd.op.quad) \notin StoredQuads(TxView(rd.prior))

\* the strings of the graph name of the quad, when the insertion added it to GRAPHS
NewGraphStrs(prior, quad) ==
    IF quad.graph_name.kind = "DefaultGraph"
       \/ EncodeTerm(quad.graph_name) \in StoredGraphs(TxView(prior))
    THEN <<>>
    ELSE remove_term_values(EncodeTerm(quad.graph_name))

FailsAt(body, failing) ==
    {i \in 1..Len(body) :
        /\ body[i] = SyntaxError \/ i = failing
        /\ \A j \in 1..(i - 1) : body[j] # SyntaxError /\ j # failing}

\* the quads of the triples a failing LOAD has read before its error
InsertedBeforeFailure(op) ==
    IF op.source.get = "Err" \/ op.source.content_type \notin SupportedMediaTypes
    THEN {}
    ELSE {in_graph(op.source.body[j], op.destination) :
            j \in UNION {1..(i - 1) : i \in FailsAt(op.source.body, op.failing)}}

\* op is a LOAD with SILENT whose evaluation in transaction w fails
SilentLoadFails(w, op) ==
    /\ op.op = "Load" /\ op.silent
    /\ eval_load(w, op.source, op.destination, op.failing).err

\* C38: a LOAD with SILENT that fails after some triples of the document were
\* inserted only has its error suppressed: the operation returns Ok and the request
\* goes on, the triples inserted before the failure are in the transaction, where
\* the later operations of the request see them, and the commit of the request
\* stores them.
C38_SilentLoadKeepsInserted ==
    [][\A t \in Txs :
        /\ (/\ tx[t].status = "active"
            /\ tx'[t].nops = tx[t].nops + 1
            /\ SilentLoadFails(tx[t], tx'[t].lastOp))
           => /\ tx'[t].lastResult = "Ok" /\ tx'[t].status = "active"
              /\ StoredQuads(TxView(tx'[t]))
                    = StoredQuads(TxView(tx[t]))
                      \cup {EncodeQuad(q) : q \in InsertedBeforeFailure(tx'[t].lastOp)}
              /\ \A q \in InsertedBeforeFailure(tx'[t].lastOp) :
                    Solves(tx'[t], Quad(NodeA, NodeP, VarX, DefaultGraph), q)
        /\ (/\ tx[t].status = "active" /\ tx[t].nops > 0
            /\ tx'[t].status = "ended" /\ tx'[t].outcome = "committed"
            /\ tx[t].lastOp.op = "Load")
           => \A q \in InsertedBeforeFailure(tx[t].lastOp) :
                EncodeQuad(q) \in StoredQuads(db')]_vars

\* a request whose last operation was a LOAD SILENT of a document with a syntax error
\* after its first triple was committed: the first triple is stored, the triple after
\* the syntax error is not
C38_Witness ==
    \E t \in Txs :
        /\ tx[t].status = "ended" /\ tx[t].outcome = "committed"
        /\ tx[t].lastOp.op = "Load" /\ tx[t].lastOp.silent
        /\ tx[t].lastOp.failing = 0
        /\ tx[t].lastOp.source.body
            = <<Triple(NodeA, NodeP, Int255), SyntaxError, Triple(NodeA, NodeP, Int256)>>
        /\ StoredQuads(db) = {EncodeQuad(QuadD255)}


\* this step evaluates CLEAR DEFAULT or DROP DEFAULT in the request of t
ClearsDefault(t) ==
    /\ Evaluates(t, "Clear") \/ Evaluates(t, "Drop")
    /\ tx'[t].lastOp.target = DefaultTarget

\* this step is remove_graph of the default graph
RemovesDefaultGraph(t) ==
    /\ tx[t].status \in {"idle", "ended"}
    /\ tx'[t].step = "api"
    /\ tx'[t].lastOp = PyRemoveGraph(DefaultGraph)

\* after is before without the quads of the default graph: the indexes of the named
\* graphs and GRAPHS are as they were
DefaultGraphEmptied(before, after) ==
    /\ \A cf \in DefaultCfs : after.cfs[cf] = {}
    /\ \A cf \in NamedCfs : after.cfs[cf] = before.cfs[cf]
    /\ after.cfs["graphs"] = before.cfs["graphs"]

\* C39 as stated: CLEAR DEFAULT, DROP DEFAULT and remove_graph of the default graph
\* never fail, remove exactly the quads of the default graph, and leave the quads of
\* the named graphs, GRAPHS and the refcount of every string a quad of a named graph
\* still refers to as they were.
C39_Original ==
    [][\A t \in Txs :
        /\ ClearsDefault(t)
           => /\ Succeeded(t)
              /\ DefaultGraphEmptied(TxView(tx[t]), TxView(tx'[t]))
              /\ \A h \in AllHashes :
                    QuadReferences(IndexQuads(TxView(tx'[t]), "spog"), h) > 0
                    => RefCount(TxView(tx'[t]), h) = RefCount(TxView(tx[t]), h)
        /\ RemovesDefaultGraph(t)
           => /\ tx'[t].lastResult = "Ok"
              /\ DefaultGraphEmptied(db, db')
              /\ \A h \in AllHashes :
                    QuadReferences(IndexQuads(db', "spog"), h) > 0
                    => RefCount(db', h) = RefCount(db, h)]_vars

\* C39: CLEAR DEFAULT, DROP DEFAULT and remove_graph of the default graph never fail,
\* also when the default graph is empty; they remove exactly the quads of the default
\* graph and leave the quads of the named graphs and GRAPHS as they were; the refcount
\* of every string goes down by the number of references to it from the quads
\* removed, so that a string a quad of a named graph refers to keeps the references
\* of the named graphs.
C39_DefaultGraphOnly ==
    [][\A t \in Txs :
        /\ ClearsDefault(t)
           => /\ Succeeded(t)
              /\ DefaultGraphEmptied(TxView(tx[t]), TxView(tx'[t]))
              /\ \A h \in AllHashes :
                    /\ RefCount(TxView(tx'[t]), h)
                        = RefCount(TxView(tx[t]), h)
                          - QuadReferences(IndexQuads(TxView(tx[t]), "dspo"), h)
                    /\ RefCount(TxView(tx'[t]), h)
                        >= QuadReferences(IndexQuads(TxView(tx'[t]), "spog"), h)
        /\ RemovesDefaultGraph(t)
           => /\ tx'[t].lastResult = "Ok"
              /\ DefaultGraphEmptied(db, db')
              /\ \A h \in AllHashes :
                    /\ RefCount(db', h)
                        = RefCount(db, h) - QuadReferences(IndexQuads(db, "dspo"), h)
                    /\ RefCount(db', h) >= QuadReferences(IndexQuads(db', "spog"), h)]_vars

\* a request evaluated DROP DEFAULT on a store that held a quad in the default graph
\* and QuadStar in a named graph: the quad of the default graph is deleted, QuadStar
\* is stored, and the string of <a>, which both referred to, is counted twice
C39_Witness ==
    \E t \in Txs :
        /\ tx[t].status = "active"
        /\ tx[t].lastOp = Drop(DefaultTarget, FALSE)
        /\ <<"dspo", write_quad("dspo", EncodeQuad(QuadD255))>> \in tx[t].dels
        /\ StoredQuads(TxView(tx[t])) = {EncodeQuad(QuadStar)}
        /\ RefCount(TxView(tx[t]), SipHash24(NodeA.iri)) = 2
        /\ RefCount(TxView(tx[t]), SipHash24(NodeA.iri))
            < RefCount(ReadBase(tx[t].read_options), SipHash24(NodeA.iri))


(***************************************************************************)
(* The Sophia traits of the terms of the model.  A value is a term in one  *)
(* of its Rust types: owned (NamedNode, BlankNode, Literal, Subject, Term) *)
(* or borrowed (NamedNodeRef, ..., TermRef).  kind and try_copy end in a   *)
(* panic for a quoted triple.                                              *)
(***************************************************************************)
Value(type, term) == [type |-> type, term |-> term]

SophiaValues ==
    {Value(type, term) :
        type \in {"NamedNode", "NamedNodeRef", "Subject", "SubjectRef", "Term", "TermRef"},
        term \in {NodeA, NodeP, GraphG1}}
    \cup {Value(type, term) :
            type \in {"BlankNode", "BlankNodeRef", "Subject", "SubjectRef", "Term", "TermRef"},
            term \in {BlankB1, BlankB2}}
    \cup {Value(type, term) :
            type \in {"Literal", "LiteralRef", "Term", "TermRef"},
            term \in {Int255, BigTyped, LanguageTaggedLiteral(SmallValue, "en")}}
    \cup {Value(type, Triple(NodeA, NodeP, NodeA)) :
            type \in {"Subject", "SubjectRef", "Term", "TermRef"}}

CopyTargets == {"NamedNode", "BlankNode", "Literal", "Subject", "Term"}

\* TTerm::kind of a Subject, SubjectRef, Term or TermRef: by the variant
variant_kind(term) ==
    CASE term.kind = "NamedNode" -> "Iri"
      [] term.kind = "BlankNode" -> "BlankNode"
      [] term.kind = "Literal" -> "Literal"
      [] term.kind = "Triple" -> "panic"

\* TTerm::kind, by the impl of the type of the value
TTerm_kind(value) ==
    CASE value.type = "BlankNode" -> "BlankNode"
      [] value.type = "BlankNodeRef" -> "BlankNode"
      [] value.type = "Literal" -> "Literal"
      [] value.type = "LiteralRef" -> "Literal"
      [] value.type = "NamedNode" -> "Iri"
      [] value.type = "NamedNodeRef" -> "BlankNode"
      [] OTHER -> variant_kind(value.term)

\* TTerm::value_raw: as_str of a node, the lexical form of a literal
value_raw(value) ==
    CASE value.term.kind = "NamedNode" -> value.term.iri
      [] value.term.kind = "BlankNode" -> value.term.str
      [] value.term.kind = "Literal" -> value.term.value

\* TTerm::language and TTerm::datatype
TTerm_language(value) ==
    IF value.term.kind = "Literal" /\ value.term.language # ""
    THEN [some |-> TRUE, tag |-> value.term.language] ELSE [some |-> FALSE]

TTerm_datatype(value) ==
    IF value.term.kind = "Literal" THEN [some |-> TRUE, iri |-> value.term.datatype]
    ELSE [some |-> FALSE]

Copied(term) == [result |-> "Ok", term |-> term]
SophiaToOxigraphConversionError == [result |-> "Err"]
Panicked == [result |-> "panic"]

\* TryCopyTerm for NamedNode, BlankNode and Literal
NamedNode_try_copy(other) ==
    CASE TTerm_kind(other) = "panic" -> Panicked
      [] TTerm_kind(other) = "Iri" -> Copied(NamedNode(value_raw(other)))
      [] OTHER -> SophiaToOxigraphConversionError

BlankNode_try_copy(other) ==
    CASE TTerm_kind(other) = "panic" -> Panicked
      [] TTerm_kind(other) = "BlankNode" -> Copied(LabelledBlankNode(value_raw(other)))
      [] OTHER -> SophiaToOxigraphConversionError

Literal_try_copy(other) ==
    CASE TTerm_kind(other) = "panic" -> Panicked
      [] TTerm_kind(other) = "Literal" ->
            IF TTerm_language(other).some
            THEN Copied(LanguageTaggedLiteral(value_raw(other), TTerm_language(other).tag))
            ELSE Copied(Literal(value_raw(other), TTerm_datatype(other).iri))
      [] OTHER -> SophiaToOxigraphConversionError

\* TryCopyTerm for Subject and for Term: by the kind of the term copied
Subject_try_copy(other) ==
    CASE TTerm_kind(other) = "panic" -> Panicked
      [] TTerm_kind(other) = "Iri" -> NamedNode_try_copy(other)
      [] TTerm_kind(other) = "BlankNode" -> BlankNode_try_copy(other)
      [] OTHER -> SophiaToOxigraphConversionError

Term_try_copy(other) ==
    CASE TTerm_kind(other) = "panic" -> Panicked
      [] TTerm_kind(other) = "Iri" -> NamedNode_try_copy(other)
      [] TTerm_kind(other) = "BlankNode" -> BlankNode_try_copy(other)
      [] TTerm_kind(other) = "Literal" -> Literal_try_copy(other)

try_copy(target, other) ==
    CASE target = "NamedNode" -> NamedNode_try_copy(other)
      [] target = "BlankNode" -> BlankNode_try_copy(other)
      [] target = "Literal" -> Literal_try_copy(other)
      [] target = "Subject" -> Subject_try_copy(other)
      [] target = "Term" -> Term_try_copy(other)

\* a caller holds a term in one of its types
Sophia_term(value) ==
    /\ rd.status = "closed"
    /\ rd' = [status |-> "sophia", stage |-> "held", value |-> value]
    /\ UNCHANGED <<db, tx, everCreated, liveGraphs, idem, codec, ev>>

\* value.kind()
Sophia_kind ==
    /\ rd.status = "sophia" /\ rd.stage = "held"
    /\ rd' = [status |-> "sophia", stage |-> "kind", value |-> rd.value,
              kind |-> TTerm_kind(rd.value)]
    /\ UNCHANGED <<db, tx, everCreated, liveGraphs, idem, codec, ev>>

\* Target::try_copy(&value)
Sophia_try_copy(target) ==
    /\ rd.status = "sophia" /\ rd.stage = "held"
    /\ rd' = [status |-> "sophia", stage |-> "copied", value |-> rd.value,
              target |-> target, copy |-> try_copy(target, rd.value)]
    /\ UNCHANGED <<db, tx, everCreated, liveGraphs, idem, codec, ev>>

SophiaNext ==
    \/ \E value \in SophiaValues : Sophia_term(value)
    \/ Sophia_kind
    \/ \E target \in CopyTargets : Sophia_try_copy(target)

SpecSophia == Init /\ [][SophiaNext]_vars

\* the kinds of terms a type of the model holds
Holds(target) ==
    CASE target = "NamedNode" -> {"NamedNode"}
      [] target = "BlankNode" -> {"BlankNode"}
      [] target = "Literal" -> {"Literal"}
      [] target = "Subject" -> {"NamedNode", "BlankNode"}
      [] target = "Term" -> {"NamedNode", "BlankNode", "Literal"}

(***************************************************************************)
(* C40: the borrowed and the owned form of a term report the same kind:    *)
(* Iri for a named node, BlankNode for a blank node, Literal for a         *)
(* literal; try_copy of a term into a type that holds its kind returns the *)
(* term, and into a type of another kind returns                           *)
(* SophiaToOxigraphConversionError.                                        *)
(***************************************************************************)
C40_KindAndCopyAgree ==
    (rd.status = "sophia" /\ rd.value.term.kind # "Triple")
    => /\ rd.stage = "kind"
          => rd.kind = CASE rd.value.term.kind = "NamedNode" -> "Iri"
                         [] rd.value.term.kind = "BlankNode" -> "BlankNode"
                         [] rd.value.term.kind = "Literal" -> "Literal"
       /\ rd.stage = "copied"
          => rd.copy = IF rd.value.term.kind \in Holds(rd.target)
                       THEN Copied(rd.value.term)
                       ELSE SophiaToOxigraphConversionError

====
